---- MODULE Spec2Model ----
(***************************************************************************)
(* Support layer of the automagik-agents runtime.                          *)
(*                                                                         *)
(* Part 1: the tool-server handle PlaywrightMCPTools                       *)
(*         (src/src/tools/mcp/browser_tools.py), the module-level          *)
(*         singleton playwright_tools shared by every agent.               *)
(* Part 2: the memory store and the template resolver of SimpleAgent       *)
(*         (src/src/agents/simple/simple_agent/agent.py,                   *)
(*          src/src/tools/memory/tool.py).                                 *)
(*                                                                         *)
(* Part 3: the runs of SimpleAgent and McpAgentAgent                       *)
(*         (src/src/agents/simple/mcp_agent_agent/agent.py) and the tool   *)
(*         schemas of the handle.                                          *)
(*                                                                         *)
(* Callers are threads of control (agents being constructed, run or shut   *)
(* down).  The source takes no lock anywhere, so a call is a sequence of   *)
(* steps, one per access to the shared handle or to the repository, and    *)
(* the steps of different callers interleave.  The specifications whose    *)
(* name ends in Seq let one caller at a time be inside a call.             *)
(***************************************************************************)
EXTENDS Integers, Sequences, FiniteSets, TLC

\* ------------------------------------------------------------------ bounds
\* Number of concurrent callers of the shared handle.
NumCallers == 2
\* Number of subprocesses the operating system can hand out in one behaviour.
MaxProcs == 2

\* Number of tasks that initialize memory variables or resolve the template.
NumTasks == 2
\* Number of agents in the agents table.
NumAgents == 2
\* Number of calls (of the repository, of the substitution) that fail in one behaviour.
MaxFailures == 1
\* Number of entries in the store up to which the memory tools insert.
MaxEntries == 3
\* The longest template of the extraction runs, in pieces.
MaxPieces == 3
\* Number of entries in the store up to which the runs of update_memory insert.
MaxUpdated == 2

Callers == 1..NumCallers
Pids == 1..MaxProcs
Tasks == 1..NumTasks
Agents == 1..NumAgents

\* --------------------------------------------------------- program constants
\* self.process.wait(timeout=5)
GraceTimeout == 5
\* self.process = None: the handle references no Popen object
NoProcess == 0
\* self.server_url = None
None == "None"
\* self.server_url = "http://localhost:8931/sse"
ServerUrl == "http://localhost:8931/sse"

VARIABLES
    config_ok,    \* self.config has an entry mcpServers.playwright
    process,      \* self.process: NoProcess or the pid of the Popen object
    server_url,   \* self.server_url: None or ServerUrl
    procs,        \* the subprocesses: pid -> "unborn" | "alive" | "term" | "exited" | "killed"
    pc,           \* position of each caller inside start_server / stop_server
    target,       \* the Popen object a caller's self.process.wait(timeout=5) blocks on
    waited,       \* time units a caller has spent in that wait
    began,        \* whether a caller's stop_server in progress began on a Stopped handle
    last          \* the call that returned last: the operation, its result, and whether
                  \* it was a stop_server that began on a Stopped handle

VARIABLES
    prompt_template,  \* self.prompt_template (SIMPLE_AGENT_PROMPT)
    template_vars,    \* self.template_vars
    memories,         \* the memories table, in insertion order
    agent_run_id,     \* the agents table: agent id -> run_id
    task,             \* each task: what it runs, for which agent, where it is, its locals
    failures,         \* how many repository calls have failed so far
    deps,             \* self.dependencies: the user_id and session_id of the run context
    reply,            \* what the memory tool called last handed back
    cache             \* the memory cache: key -> cached content, Unset when none

VARIABLES
    mcp_tools,    \* self.config["mcp_tools"]: the names of the enabled browser tools
    agent,        \* the agent object: its class, its flags, what its constructor obtained
    run,          \* the call of run that ended last: what it was given and how it ended
    schemas       \* the tool schemas obtained last, and by which function

VARIABLES
    db_id,        \* self.db_id of the SimpleAgent object the calls of process_message share
    calls,        \* each call of process_message: its arguments, where it is, what it used
    peers         \* each McpAgentAgent object: its flag, and where its run is

procVars == <<config_ok, process, server_url, procs, pc, target, waited, began, last>>
memVars == <<prompt_template, template_vars, memories, agent_run_id, task, failures, deps, reply, cache>>
runVars == <<mcp_tools, agent, run, schemas>>
objVars == <<db_id, calls, peers>>
vars == <<config_ok, process, server_url, procs, pc, target, waited, began, last,
          prompt_template, template_vars, memories, agent_run_id, task, failures, deps, reply, cache,
          mcp_tools, agent, run, schemas,
          db_id, calls, peers>>

NoCall == [op |-> "none", val |-> FALSE, on_stopped |-> FALSE]
Returned(o, v, b) == [op |-> o, val |-> v, on_stopped |-> b]

\* poll() is None: the subprocess has not ended ("term": SIGTERM is pending)
Alive(p) == procs[p] \in {"alive", "term"}

\* The pid the next successful Popen gets.
FreshPid == CHOOSE p \in Pids : procs[p] = "unborn" /\ \A q \in Pids : procs[q] = "unborn" => p <= q

\* PlaywrightMCPTools.__init__ and the module-level playwright_tools
ProcInit ==
    /\ config_ok \in BOOLEAN
    /\ process = NoProcess
    /\ server_url = None
    /\ procs = [p \in Pids |-> "unborn"]
    /\ pc = [c \in Callers |-> "idle"]
    /\ target = [c \in Callers |-> NoProcess]
    /\ waited = [c \in Callers |-> 0]
    /\ began = [c \in Callers |-> FALSE]
    /\ last = NoCall

\* The abstract state of the handle (spec: Stopped, Starting, Running, Stopping),
\* read off the fields the code has: a start is in progress between Popen and the
\* assignment of server_url; the handle is live while self.process has not ended.
InStart == \E c \in Callers : pc[c] = "start_url"
InStop == \E c \in Callers : pc[c] \in {"stop_waitcall", "stop_wait", "stop_kill"}
Live == process # NoProcess /\ Alive(process)
HandleState ==
    IF InStart THEN "Starting"
    ELSE IF Live THEN (IF InStop THEN "Stopping" ELSE "Running")
    ELSE "Stopped"

\* get_server_url(): return self.server_url
get_server_url == server_url

\* ------------------------------------------------------------ start_server
\* start_server, lines 42-44: the configuration has no playwright entry; return False
start_server_noconfig(c) ==
    /\ pc[c] = "idle"
    /\ ~config_ok
    /\ last' = Returned("start", FALSE, FALSE)
    /\ UNCHANGED <<config_ok, process, server_url, procs, pc, target, waited, began>>
    /\ UNCHANGED <<memVars, runVars, objVars>>

\* start_server, lines 46-63 and 70-72: subprocess.Popen raises; self.process
\* and self.server_url keep whatever they held; return False
start_server_raise(c) ==
    /\ pc[c] = "idle"
    /\ config_ok
    /\ last' = Returned("start", FALSE, FALSE)
    /\ UNCHANGED <<config_ok, process, server_url, procs, pc, target, waited, began>>
    /\ UNCHANGED <<memVars, runVars, objVars>>

\* start_server, lines 46-63: self.process = subprocess.Popen(cmd, ...).
\* There is no test of self.process before the spawn.
start_server_popen(c) ==
    /\ pc[c] = "idle"
    /\ config_ok
    /\ \E p \in Pids : procs[p] = "unborn"
    /\ procs' = [procs EXCEPT ![FreshPid] = "alive"]
    /\ process' = FreshPid
    /\ pc' = [pc EXCEPT ![c] = "start_url"]
    /\ UNCHANGED <<config_ok, server_url, target, waited, began, last>>
    /\ UNCHANGED <<memVars, runVars, objVars>>

\* start_server, lines 65-69: self.server_url = "http://localhost:8931/sse"; return True
start_server_url(c) ==
    /\ pc[c] = "start_url"
    /\ server_url' = ServerUrl
    /\ pc' = [pc EXCEPT ![c] = "idle"]
    /\ last' = Returned("start", TRUE, FALSE)
    /\ UNCHANGED <<config_ok, process, procs, target, waited, began>>
    /\ UNCHANGED <<memVars, runVars, objVars>>

\* ------------------------------------------------------------- stop_server
\* Popen.terminate(): SIGTERM to a subprocess that has not ended, nothing otherwise.
Terminate(p) == [procs EXCEPT ![p] = IF procs[p] = "alive" THEN "term" ELSE procs[p]]

\* Popen.kill(): SIGKILL ends a subprocess that has not ended, nothing otherwise.
Kill(p) == [procs EXCEPT ![p] = IF Alive(p) THEN "killed" ELSE procs[p]]

\* Mutant: the closing "return True" of stop_server is missing (the call yields a falsy value).
stop_server_noprocess_noreturn(c) ==
    /\ pc[c] = "idle"
    /\ process = NoProcess
    /\ last' = Returned("stop", FALSE, HandleState = "Stopped")
    /\ UNCHANGED <<config_ok, process, server_url, procs, pc, target, waited, began>>
    /\ UNCHANGED <<memVars, runVars, objVars>>

\* stop_server, lines 76 and 89: self.process is None; return True
stop_server_noprocess(c) ==
    /\ pc[c] = "idle"
    /\ process = NoProcess
    /\ last' = Returned("stop", TRUE, HandleState = "Stopped")
    /\ UNCHANGED <<config_ok, process, server_url, procs, pc, target, waited, began>>
    /\ UNCHANGED <<memVars, runVars, objVars>>

\* stop_server, lines 76-78: self.process.terminate()
stop_server_terminate(c) ==
    /\ pc[c] = "idle"
    /\ process # NoProcess
    /\ procs' = Terminate(process)
    /\ pc' = [pc EXCEPT ![c] = "stop_waitcall"]
    /\ began' = [began EXCEPT ![c] = (HandleState = "Stopped")]
    /\ UNCHANGED <<config_ok, process, server_url, target, waited, last>>
    /\ UNCHANGED <<memVars, runVars, objVars>>

\* stop_server, line 79: self.process.wait(timeout=5) is called: self.process is
\* read again and the call blocks on the Popen object it holds now.
stop_server_wait(c) ==
    /\ pc[c] = "stop_waitcall"
    /\ target' = [target EXCEPT ![c] = process]
    /\ waited' = [waited EXCEPT ![c] = 0]
    /\ pc' = [pc EXCEPT ![c] = "stop_wait"]
    /\ UNCHANGED <<config_ok, process, server_url, procs, began, last>>
    /\ UNCHANGED <<memVars, runVars, objVars>>

\* One time unit passes for a caller blocked in the wait.
wait_tick(c) ==
    /\ pc[c] = "stop_wait"
    /\ Alive(target[c])
    /\ waited[c] < GraceTimeout
    /\ waited' = [waited EXCEPT ![c] = waited[c] + 1]
    /\ UNCHANGED <<config_ok, process, server_url, procs, pc, target, began, last>>
    /\ UNCHANGED <<memVars, runVars, objVars>>

\* stop_server, lines 79-81: the wait ends because the subprocess has ended; return True
stop_server_waited(c) ==
    /\ pc[c] = "stop_wait"
    /\ ~Alive(target[c])
    /\ pc' = [pc EXCEPT ![c] = "idle"]
    /\ target' = [target EXCEPT ![c] = NoProcess]
    /\ waited' = [waited EXCEPT ![c] = 0]
    /\ last' = Returned("stop", TRUE, began[c])
    /\ began' = [began EXCEPT ![c] = FALSE]
    /\ UNCHANGED <<config_ok, process, server_url, procs>>
    /\ UNCHANGED <<memVars, runVars, objVars>>

\* stop_server, lines 79 and 82-83: the wait raises TimeoutExpired after 5 time units.
stop_server_timeout(c) ==
    /\ pc[c] = "stop_wait"
    /\ Alive(target[c])
    /\ waited[c] = GraceTimeout
    /\ pc' = [pc EXCEPT ![c] = "stop_kill"]
    /\ target' = [target EXCEPT ![c] = NoProcess]
    /\ waited' = [waited EXCEPT ![c] = 0]
    /\ UNCHANGED <<config_ok, process, server_url, procs, began, last>>
    /\ UNCHANGED <<memVars, runVars, objVars>>

\* Mutant: stop_server reports success after the force-kill.
stop_server_kill_true(c) ==
    /\ pc[c] = "stop_kill"
    /\ procs' = Kill(process)
    /\ pc' = [pc EXCEPT ![c] = "idle"]
    /\ last' = Returned("stop", TRUE, began[c])
    /\ began' = [began EXCEPT ![c] = FALSE]
    /\ UNCHANGED <<config_ok, process, server_url, target, waited>>
    /\ UNCHANGED <<memVars, runVars, objVars>>

\* Mutant: after the timeout stop_server returns False without the force-kill.
stop_server_kill_skipped(c) ==
    /\ pc[c] = "stop_kill"
    /\ pc' = [pc EXCEPT ![c] = "idle"]
    /\ last' = Returned("stop", FALSE, began[c])
    /\ began' = [began EXCEPT ![c] = FALSE]
    /\ UNCHANGED <<config_ok, process, server_url, procs, target, waited>>
    /\ UNCHANGED <<memVars, runVars, objVars>>

\* stop_server, lines 84-88: self.process.kill() on the Popen object the handle
\* holds now; return False
stop_server_kill(c) ==
    /\ pc[c] = "stop_kill"
    /\ procs' = Kill(process)
    /\ pc' = [pc EXCEPT ![c] = "idle"]
    /\ last' = Returned("stop", FALSE, began[c])
    /\ began' = [began EXCEPT ![c] = FALSE]
    /\ UNCHANGED <<config_ok, process, server_url, target, waited>>
    /\ UNCHANGED <<memVars, runVars, objVars>>

\* The tool-server honours SIGTERM and exits.
proc_exit(p) ==
    /\ procs[p] = "term"
    /\ procs' = [procs EXCEPT ![p] = "exited"]
    /\ UNCHANGED <<config_ok, process, server_url, pc, target, waited, began, last>>
    /\ UNCHANGED <<memVars, runVars, objVars>>

\* One step of caller c on the handle.
HandleStep(c) ==
    \/ start_server_noconfig(c)
    \/ start_server_raise(c)
    \/ start_server_popen(c)
    \/ start_server_url(c)
    \/ stop_server_noprocess(c)
    \/ stop_server_terminate(c)
    \/ stop_server_wait(c)
    \/ wait_tick(c)
    \/ stop_server_waited(c)
    \/ stop_server_timeout(c)
    \/ stop_server_kill(c)

\* ================================================================ Part 2
\* ------------------------------------------------------------------ strings
\* Python's truthiness and str.startswith on the strings of the model.
StartsWith(s, prefix) == Len(s) >= Len(prefix) /\ SubSeq(s, 1, Len(prefix)) = prefix

\* The characters of the class [a-zA-Z_]
IdentChars ==
    {"a","b","c","d","e","f","g","h","i","j","k","l","m","n","o","p","q","r","s","t","u","v","w","x","y","z",
     "A","B","C","D","E","F","G","H","I","J","K","L","M","N","O","P","Q","R","S","T","U","V","W","X","Y","Z","_"}

\* The end (exclusive) of the longest run of identifier characters from position j.
RECURSIVE IdentEnd(_, _)
IdentEnd(s, j) ==
    IF j <= Len(s) /\ SubSeq(s, j, j) \in IdentChars THEN IdentEnd(s, j + 1) ELSE j

\* re.findall(r'\{\{([a-zA-Z_]+)\}\}', template): the names of the leftmost,
\* non-overlapping placeholders from position i on, in order of occurrence.
RECURSIVE FindAll(_, _)
FindAll(s, i) ==
    IF i + 1 > Len(s) THEN <<>>
    ELSE IF SubSeq(s, i, i + 1) = "{{"
         THEN LET j == IdentEnd(s, i + 2)
              IN IF j > i + 2 /\ j + 1 <= Len(s) /\ SubSeq(s, j, j + 1) = "}}"
                 THEN <<SubSeq(s, i + 2, j - 1)>> \o FindAll(s, j + 2)
                 ELSE FindAll(s, i + 1)
         ELSE FindAll(s, i + 1)

\* list(set(matches)): every name once; the order in which Python lists a set
\* of strings is not specified (it depends on the hash seed of the process), so
\* every order is a possible result.
Orderings(S) ==
    {q \in [1..Cardinality(S) -> S] : \A j, k \in 1..Cardinality(S) : j # k => q[j] # q[k]}

\* The matches as re.findall lists them, with no set(...) around them.
extract_all_matches(template) == {FindAll(template, 1)}

\* SimpleAgent._extract_template_variables: the lists it may return.
extract_template_variables(template) ==
    Orderings({FindAll(template, 1)[k] : k \in 1..Len(FindAll(template, 1))})

\* str.find(old, i): the first position from i on where old occurs, 0 when none.
RECURSIVE Find(_, _, _)
Find(s, old, i) ==
    IF i + Len(old) - 1 > Len(s) THEN 0
    ELSE IF SubSeq(s, i, i + Len(old) - 1) = old THEN i
    ELSE Find(s, old, i + 1)

\* str.replace(old, new): every non-overlapping occurrence, left to right.
RECURSIVE Replace(_, _, _)
Replace(s, old, new) ==
    LET k == Find(s, old, 1)
    IN IF k = 0 THEN s
       ELSE SubSeq(s, 1, k - 1) \o new \o Replace(SubSeq(s, k + Len(old), Len(s)), old, new)

\* ------------------------------------------------------- program constants
\* self.db_id = None, agent_id=None: no id
NoId == 0
\* a template_values entry that has not been assigned
Unset == "<unset>"
\* content = "None stored yet"
GenericDefault == "None stored yet"
\* the prefix replace_template_variables tests the result of get_memory_tool for
NotFoundPrefix == "Memory with key"
\* template_values["run_id"] = "1"
RunIdFallback == "1"

\* _initialize_memory_variables_sync: the default content of a new variable
DefaultContent(var_name) ==
    IF var_name = "personal_attributes"
    THEN "None stored yet. You can update this by asking the agent to remember personal details."
    ELSE IF var_name = "technical_knowledge"
    THEN "None stored yet. You can update this by asking the agent to remember technical information."
    ELSE IF var_name = "user_preferences"
    THEN "None stored yet. You can update this by asking the agent to remember your preferences."
    ELSE GenericDefault

\* get_memory_tool: the strings it returns when there is no entry / when the
\* repository raises
NotFoundMessage(key) == "Memory with key '" \o key \o "' not found"
DbError == "connection failed"
ErrorMessage(key) == "Error getting memory with key '" \o key \o "': " \o DbError

\* The prompt templates an agent class may carry.
Templates ==
    { "User notes: {{personal_attributes}}. Run #{{run_id}}.",
      "{{nickname}} - {{personal_attributes}}" }

\* Every variable name of some template, and run_id.
Names == {"run_id"} \cup UNION { {FindAll(tp, 1)[k] : k \in 1..Len(FindAll(tp, 1))} : tp \in Templates }

\* memory_vars = [var for var in self.template_vars if var != "run_id"]
memory_vars == SelectSeq(template_vars, LAMBDA v : v # "run_id")

\* ----------------------------------------------------------- the repository
\* get_memory_by_name(name, agent_id): the first entry with the name, of the
\* agent when one is given; NoId when there is none.
get_memory_by_name(name, agent_id) ==
    LET hits == {k \in 1..Len(memories) :
                    /\ memories[k].name = name
                    /\ (agent_id = NoId \/ memories[k].agent_id = agent_id)}
    IN IF hits = {} THEN NoId ELSE CHOOSE k \in hits : \A h \in hits : k <= h

\* create_memory(memory) -> id: a plain insert under a fresh id.  A Memory built
\* without user_id and session_id has none: it is global to its agent.
NewId == Len(memories) + 1
insert_memory(name, content, agent_id, user_id, session_id) ==
    Append(memories, [id |-> NewId, name |-> name, content |-> content, agent_id |-> agent_id,
                      user_id |-> user_id, session_id |-> session_id])
create_memory(name, content, agent_id) == insert_memory(name, content, agent_id, NoId, None)

\* agents.run_id of an agent no resolution has run for
BaseRunId == 0

\* increment_agent_run_id(agent_id): run_id = run_id + 1
increment_agent_run_id(agent_id) == [agent_run_id EXCEPT ![agent_id] = @ + 1]

\* get_agent(agent_id).run_id
get_agent_run_id(agent_id) == agent_run_id[agent_id]

\* ------------------------------------------------------------ run contexts
\* user_id = 1  # Default user ID
DefaultUser == 1
\* The session ids a caller passes to process_message.
Sessions == {"s1"}
\* What process_message leaves in self.dependencies: no ids (before the first
\* call), a user id only, or a user id and a session id.
Contexts ==
    {[user_id |-> NoId, session_id |-> None]}
    \cup {[user_id |-> DefaultUser, session_id |-> s] : s \in Sessions \cup {None}}
\* No memory tool has been called yet.
NoReply == [op |-> "none", success |-> FALSE, id |-> NoId, content |-> "", listed |-> <<>>]
\* What a memory tool hands back: whether it succeeded, the id and the content
\* (or the message) of its result, and the ids of the entries it lists.
Result(op, success, id, content) ==
    [op |-> op, success |-> success, id |-> id, content |-> content, listed |-> <<>>]
\* Nothing is cached.
EmptyCache == [n \in Names |-> Unset]

\* --------------------------------------------------------------- the tasks
\* A repository call of a task that failed: which call, for which variable.
Failure(call, var) == [call |-> call, var |-> var]

NewTask ==
    [kind |-> "-", db_id |-> NoId, pc |-> "ready", i |-> 0,
     values |-> [n \in Names |-> Unset], errors |-> {},
     got |-> [n \in Names |-> NoId], failed |-> {}, result |-> Unset]

MemInit ==
    /\ prompt_template \in Templates
    /\ template_vars \in extract_template_variables(prompt_template)
    /\ memories = <<>>
    /\ agent_run_id = [a \in Agents |-> BaseRunId]
    /\ task = [t \in Tasks |-> NewTask]
    /\ failures = 0
    /\ deps \in Contexts
    /\ reply = NoReply
    /\ cache = EmptyCache

\* A repository call fails (the database is unreachable, the statement is refused).
RepositoryFails == failures < MaxFailures /\ failures' = failures + 1
RepositoryWorks == failures' = failures

\* The loop "for var_name in memory_vars": enter it, and go on after one variable.
AfterLoop(r) == [r EXCEPT !.pc = IF r.kind = "init" THEN "done" ELSE "fill"]
EnterLoop(r) ==
    IF Len(memory_vars) = 0 THEN AfterLoop(r) ELSE [r EXCEPT !.i = 1, !.pc = "get_memory"]
Advance(r) ==
    IF r.i < Len(memory_vars) THEN [r EXCEPT !.i = r.i + 1, !.pc = "get_memory"] ELSE AfterLoop(r)
Var(t) == memory_vars[task[t].i]

\* The tasks are interchangeable: they are numbered in the order in which they begin.
InTurn(t) == \A u \in Tasks : u < t => task[u].pc # "ready"

\* ------------------------------------- _initialize_memory_variables_sync
\* lines 185-195: return at once without an agent id, otherwise start the loop
init_begin(t, a) ==
    /\ task[t].pc = "ready" /\ InTurn(t)
    /\ task' = [task EXCEPT ![t] =
                  IF a = NoId THEN [NewTask EXCEPT !.kind = "init", !.pc = "done"]
                  ELSE EnterLoop([NewTask EXCEPT !.kind = "init", !.db_id = a])]
    /\ UNCHANGED <<prompt_template, template_vars, memories, agent_run_id, failures>>
    /\ UNCHANGED <<deps, reply, cache>>
    /\ UNCHANGED <<procVars, runVars, objVars>>

\* Mutant: an exception of the lookup ends the loop over the variables.
init_get_memory_stops(t) ==
    /\ task[t].kind = "init" /\ task[t].pc = "get_memory"
    /\ LET r == task[t]
           m == get_memory_by_name(Var(t), r.db_id)
       IN \/ /\ RepositoryFails
             /\ task' = [task EXCEPT ![t] = AfterLoop([r EXCEPT !.failed = @ \cup {Failure("get_memory", Var(t))}])]
          \/ /\ RepositoryWorks
             /\ m # NoId
             /\ task' = [task EXCEPT ![t] = Advance([r EXCEPT !.got[Var(t)] = memories[m].id])]
          \/ /\ RepositoryWorks
             /\ m = NoId
             /\ task' = [task EXCEPT ![t] = [r EXCEPT !.pc = "create_memory"]]
    /\ UNCHANGED <<prompt_template, template_vars, memories, agent_run_id>>
    /\ UNCHANGED <<deps, reply, cache>>
    /\ UNCHANGED <<procVars, runVars, objVars>>

\* lines 198-203 and 235-239: existing_memory = get_memory_by_name(var_name, agent_id=self.db_id)
init_get_memory(t) ==
    /\ task[t].kind = "init" /\ task[t].pc = "get_memory"
    /\ LET r == task[t]
           m == get_memory_by_name(Var(t), r.db_id)
       IN \/ /\ RepositoryFails
             /\ task' = [task EXCEPT ![t] = Advance([r EXCEPT !.failed = @ \cup {Failure("get_memory", Var(t))}])]
          \/ /\ RepositoryWorks
             /\ m # NoId
             /\ task' = [task EXCEPT ![t] = Advance([r EXCEPT !.got[Var(t)] = memories[m].id])]
          \/ /\ RepositoryWorks
             /\ m = NoId
             /\ task' = [task EXCEPT ![t] = [r EXCEPT !.pc = "create_memory"]]
    /\ UNCHANGED <<prompt_template, template_vars, memories, agent_run_id>>
    /\ UNCHANGED <<deps, reply, cache>>
    /\ UNCHANGED <<procVars, runVars, objVars>>

\* lines 204-234 and 238-239: memory_id = create_memory(Memory(name, content, ...))
init_create_memory(t) ==
    /\ task[t].kind = "init" /\ task[t].pc = "create_memory"
    /\ LET r == task[t]
       IN \/ /\ RepositoryWorks
             /\ memories' = create_memory(Var(t), DefaultContent(Var(t)), r.db_id)
             /\ task' = [task EXCEPT ![t] = Advance([r EXCEPT !.got[Var(t)] = NewId])]
          \/ /\ RepositoryFails
             /\ task' = [task EXCEPT ![t] = Advance([r EXCEPT !.failed = @ \cup {Failure("create_memory", Var(t))}])]
             /\ UNCHANGED memories
    /\ UNCHANGED <<prompt_template, template_vars, agent_run_id>>
    /\ UNCHANGED <<deps, reply, cache>>
    /\ UNCHANGED <<procVars, runVars, objVars>>

\* ------------------------------------------------------------ get_memory_tool
\* get_memory_tool(key), lines 158-165: db_get_memory_by_name(name=key), no agent
\* id given: the content of the entry found, or the not-found message.
get_memory_tool(key) ==
    LET m == get_memory_by_name(key, NoId)
    IN IF m # NoId THEN memories[m].content ELSE NotFoundMessage(key)

\* ------------------------------------------------- replace_template_variables
\* lines 492-500: replace each placeholder by its value, in the order of
\* template_values: run_id first, then the memory variables.
RECURSIVE FillFrom(_, _, _)
FillFrom(text, order, values) ==
    IF order = <<>> THEN text
    ELSE FillFrom(Replace(text, "{{" \o Head(order) \o "}}", values[Head(order)]),
                  Tail(order), values)
Fill(values) == FillFrom(prompt_template, <<"run_id">> \o memory_vars, values)

\* lines 414-418 and 437-439: without an agent id run_id is "1"
resolve_begin(t, a) ==
    /\ task[t].pc = "ready" /\ InTurn(t)
    /\ task' = [task EXCEPT ![t] =
                  IF a = NoId
                  THEN EnterLoop([NewTask EXCEPT !.kind = "resolve", !.values["run_id"] = RunIdFallback])
                  ELSE [NewTask EXCEPT !.kind = "resolve", !.db_id = a, !.pc = "increment"]]
    /\ UNCHANGED <<prompt_template, template_vars, memories, agent_run_id, failures>>
    /\ UNCHANGED <<deps, reply, cache>>
    /\ UNCHANGED <<procVars, runVars, objVars>>

\* The increment is applied to the counter of every agent.
resolve_increment_all(t) ==
    /\ task[t].kind = "resolve" /\ task[t].pc = "increment"
    /\ RepositoryWorks
    /\ agent_run_id' = [a \in Agents |-> agent_run_id[a] + 1]
    /\ task' = [task EXCEPT ![t] = [task[t] EXCEPT !.pc = "get_agent"]]
    /\ UNCHANGED <<prompt_template, template_vars, memories>>
    /\ UNCHANGED <<deps, reply, cache>>
    /\ UNCHANGED <<procVars, runVars, objVars>>

\* lines 419-424 and 433-436: increment_success = increment_agent_run_id(self.db_id):
\* it increments, or reports failure (a warning only), or raises.
resolve_increment(t) ==
    /\ task[t].kind = "resolve" /\ task[t].pc = "increment"
    /\ LET r == task[t]
       IN \/ /\ RepositoryWorks
             /\ agent_run_id' = increment_agent_run_id(r.db_id)
             /\ task' = [task EXCEPT ![t] = [r EXCEPT !.pc = "get_agent"]]
          \/ /\ RepositoryFails
             /\ task' = [task EXCEPT ![t] = [r EXCEPT !.pc = "get_agent", !.failed = @ \cup {Failure("increment", "run_id")}]]
             /\ UNCHANGED agent_run_id
          \/ /\ RepositoryFails
             /\ task' = [task EXCEPT ![t] =
                           EnterLoop([r EXCEPT !.values["run_id"] = RunIdFallback,
                                               !.errors = @ \cup {"run_id"},
                                               !.failed = @ \cup {Failure("increment", "run_id")}])]
             /\ UNCHANGED agent_run_id
    /\ UNCHANGED <<prompt_template, template_vars, memories>>
    /\ UNCHANGED <<deps, reply, cache>>
    /\ UNCHANGED <<procVars, runVars, objVars>>

\* lines 426-436: agent = get_agent(self.db_id): the agent with its run_id, or
\* no agent, or the call raises.
resolve_get_agent(t) ==
    /\ task[t].kind = "resolve" /\ task[t].pc = "get_agent"
    /\ LET r == task[t]
       IN \/ /\ RepositoryWorks
             /\ task' = [task EXCEPT ![t] =
                           EnterLoop([r EXCEPT !.values["run_id"] = ToString(get_agent_run_id(r.db_id))])]
          \/ /\ RepositoryFails
             /\ task' = [task EXCEPT ![t] =
                           EnterLoop([r EXCEPT !.values["run_id"] = RunIdFallback, !.failed = @ \cup {Failure("get_agent", "run_id")}])]
          \/ /\ RepositoryFails
             /\ task' = [task EXCEPT ![t] =
                           EnterLoop([r EXCEPT !.values["run_id"] = RunIdFallback,
                                               !.errors = @ \cup {"run_id"},
                                               !.failed = @ \cup {Failure("get_agent", "run_id")}])]
    /\ UNCHANGED <<prompt_template, template_vars, memories, agent_run_id>>
    /\ UNCHANGED <<deps, reply, cache>>
    /\ UNCHANGED <<procVars, runVars, objVars>>

\* Mutant: the not-found branch creates the entry whether or not there is an agent id.
AfterGetCreates(r, var_name, memory_content, found_id) ==
    IF memory_content # "" /\ ~StartsWith(memory_content, NotFoundPrefix)
    THEN Advance([r EXCEPT !.values[var_name] = memory_content, !.got[var_name] = found_id])
    ELSE [r EXCEPT !.pc = "create_memory"]

\* What lines 445-482 do with the string get_memory_tool returned.
AfterGet(r, var_name, memory_content, found_id) ==
    IF memory_content # "" /\ ~StartsWith(memory_content, NotFoundPrefix)
    THEN Advance([r EXCEPT !.values[var_name] = memory_content, !.got[var_name] = found_id])
    ELSE IF r.db_id # NoId
    THEN [r EXCEPT !.pc = "create_memory"]
    ELSE Advance([r EXCEPT !.values[var_name] = GenericDefault, !.errors = @ \cup {var_name}])

\* lines 443-448 and 476-478: memory_content = await get_memory_tool(var_name);
\* when the repository raises, get_memory_tool returns its error message.
resolve_get_memory(t) ==
    /\ task[t].kind = "resolve" /\ task[t].pc = "get_memory"
    /\ LET r == task[t]
       IN \/ /\ RepositoryWorks
             /\ task' = [task EXCEPT ![t] =
                           AfterGet(r, Var(t), get_memory_tool(Var(t)), get_memory_by_name(Var(t), NoId))]
          \/ /\ RepositoryFails
             /\ task' = [task EXCEPT ![t] =
                           AfterGet([r EXCEPT !.failed = @ \cup {Failure("get_memory", Var(t))}], Var(t), ErrorMessage(Var(t)), NoId)]
    /\ UNCHANGED <<prompt_template, template_vars, memories, agent_run_id>>
    /\ UNCHANGED <<deps, reply, cache>>
    /\ UNCHANGED <<procVars, runVars, objVars>>

\* lines 450-475: memory_id = create_memory(Memory(name, "None stored yet", ...));
\* a missing id and an exception end alike: the default value, and an error noted.
resolve_create_memory(t) ==
    /\ task[t].kind = "resolve" /\ task[t].pc = "create_memory"
    /\ LET r == task[t]
       IN \/ /\ RepositoryWorks
             /\ memories' = create_memory(Var(t), GenericDefault, r.db_id)
             /\ task' = [task EXCEPT ![t] =
                           Advance([r EXCEPT !.values[Var(t)] = GenericDefault, !.got[Var(t)] = NewId])]
          \/ /\ RepositoryFails
             /\ task' = [task EXCEPT ![t] =
                           Advance([r EXCEPT !.values[Var(t)] = GenericDefault,
                                             !.errors = @ \cup {Var(t)},
                                             !.failed = @ \cup {Failure("create_memory", Var(t))}])]
             /\ UNCHANGED memories
    /\ UNCHANGED <<prompt_template, template_vars, agent_run_id>>
    /\ UNCHANGED <<deps, reply, cache>>
    /\ UNCHANGED <<procVars, runVars, objVars>>

\* lines 492-500: the filled template is returned.
resolve_fill(t) ==
    /\ task[t].kind = "resolve" /\ task[t].pc = "fill"
    /\ task' = [task EXCEPT ![t] = [task[t] EXCEPT !.result = Fill(task[t].values), !.pc = "done"]]
    /\ UNCHANGED <<prompt_template, template_vars, memories, agent_run_id, failures>>
    /\ UNCHANGED <<deps, reply, cache>>
    /\ UNCHANGED <<procVars, runVars, objVars>>

\* The substitution raises and nothing catches it: the exception reaches the caller.
resolve_fill_propagate(t) ==
    /\ task[t].kind = "resolve" /\ task[t].pc = "fill"
    /\ failures < MaxFailures /\ failures' = failures + 1
    /\ task' = [task EXCEPT ![t] = [task[t] EXCEPT !.failed = @ \cup {Failure("substitute", "")},
                                                   !.pc = "raised"]]
    /\ UNCHANGED <<prompt_template, template_vars, memories, agent_run_id>>
    /\ UNCHANGED <<deps, reply, cache>>
    /\ UNCHANGED <<procVars, runVars, objVars>>

\* lines 501-504: the substitution raises; the original template is returned.
\* The fault is counted with the failed repository calls.
resolve_fill_raise(t) ==
    /\ task[t].kind = "resolve" /\ task[t].pc = "fill"
    /\ failures < MaxFailures /\ failures' = failures + 1
    /\ task' = [task EXCEPT ![t] = [task[t] EXCEPT !.result = prompt_template,
                                                   !.failed = @ \cup {Failure("substitute", "")},
                                                   !.pc = "done"]]
    /\ UNCHANGED <<prompt_template, template_vars, memories, agent_run_id>>
    /\ UNCHANGED <<deps, reply, cache>>
    /\ UNCHANGED <<procVars, runVars, objVars>>

\* ------------------------------------------------------------ memory tools
\* list_memories(agent_id, name): the entries of the agent with the name, in the
\* order of the store.
list_memories(agent_id, name) ==
    SelectSeq(memories, LAMBDA e : e.agent_id = agent_id /\ e.name = name)

\* format_memory_content(content): a string is stored as it is.
format_memory_content(content) == content

\* The content the tools of the model store.
StoredContent == "likes tea"
\* The scope argument of create_memory: a scope name, or none.
ScopeArgs == {"global", "user", "session", None}
\* What map_agent_id(ctx) hands to a tool: an agent, a user id (1 when the
\* context has none), and the session id of the context, if any.
ToolContexts == {c \in Contexts : c.user_id # NoId}

\* No task is in the middle of its handler.
TasksIdle == \A t \in Tasks : task[t].pc \in {"ready", "done"}

\* tool.py 389-405: the user and session the new entry is stored under.
memory_user_id(c, scope) == IF scope = "global" THEN NoId ELSE c.user_id
memory_session_id(c, scope) == IF scope = "session" THEN c.session_id ELSE None

\* The decorator invalidate_memory_cache: what is cached is dropped.
invalidate_memory_cache == EmptyCache

\* tool.py create_memory(ctx, name, content, scope=scope), lines 353-455: one
\* insert, no lookup before it; the repository call may fail.  Decorated with
\* invalidate_memory_cache.
tool_create_memory(a, c, name, scope) ==
    /\ TasksIdle /\ Len(memories) < MaxEntries
    /\ \/ /\ RepositoryWorks
          /\ memories' = insert_memory(name, format_memory_content(StoredContent), a,
                                        memory_user_id(c, scope), memory_session_id(c, scope))
          /\ reply' = Result("create_memory", TRUE, NewId, "")
       \/ /\ RepositoryFails
          /\ reply' = Result("create_memory", FALSE, NoId, "")
          /\ UNCHANGED memories
    /\ cache' = invalidate_memory_cache
    /\ UNCHANGED <<prompt_template, template_vars, agent_run_id, task, deps>>
    /\ UNCHANGED <<procVars, runVars, objVars>>

\* tool.py store_memory_tool(key, content), lines 170-221: agent_id = 1,
\* user_id = 1, one insert, no lookup before it.  Not decorated.
store_memory_tool(key) ==
    /\ TasksIdle /\ Len(memories) < MaxEntries
    /\ \/ /\ RepositoryWorks
          /\ memories' = insert_memory(key, StoredContent, 1, DefaultUser, None)
          /\ reply' = Result("store_memory_tool", TRUE, NewId,
                             "Memory stored with key '" \o key \o "'")
       \/ /\ RepositoryFails
          /\ reply' = Result("store_memory_tool", FALSE, NoId,
                             "Error storing memory with key '" \o key \o "': " \o DbError)
          /\ UNCHANGED memories
    /\ UNCHANGED <<prompt_template, template_vars, agent_run_id, task, deps, cache>>
    /\ UNCHANGED <<procVars, runVars, objVars>>

\* tool.py read_memory(ctx, name=name), lines 311-345: the first entry of
\* list_memories_in_db(agent_id=agent_id, name=name), or not found; when the
\* repository raises, the error is reported in the result.  Decorated with
\* invalidate_memory_cache.
read_memory(a, c, name) ==
    /\ TasksIdle
    /\ \/ /\ RepositoryWorks
          /\ reply' = IF list_memories(a, name) = <<>>
                      THEN Result("read_memory", FALSE, NoId, "Memory not found")
                      ELSE Result("read_memory", TRUE, list_memories(a, name)[1].id,
                                  list_memories(a, name)[1].content)
       \/ /\ RepositoryFails
          /\ reply' = Result("read_memory", FALSE, NoId, "Error reading memory: " \o DbError)
    /\ cache' = invalidate_memory_cache
    /\ UNCHANGED <<prompt_template, template_vars, memories, agent_run_id, task, deps>>
    /\ UNCHANGED <<procVars, runVars, objVars>>

\* ---------------------------------------------------------- update_memory
\* The content update_memory is called with.
NewContent == "likes coffee"
\* The names the memory tools are called with.
ToolNames == Names \ {"run_id"}
\* The ids update_memory is called with: those of the entries, and one of no entry.
MemoryIds == 1..(MaxUpdated + 1)

\* A variant that answers with the first entry whatever the id is.
get_memory_first(memory_id) == IF memories # <<>> THEN 1 ELSE 0

\* get_memory(memory_id): the position of the entry with the id, 0 when none.
get_memory(memory_id) ==
    IF \E k \in 1..Len(memories) : memories[k].id = memory_id
    THEN CHOOSE k \in 1..Len(memories) : memories[k].id = memory_id
    ELSE 0

\* update_memory(memory_id, content=..., name=...): the fields given are set on
\* the entry with the id; the other entries are not looked at.
update_memory_in_db(memory_id, content, name) ==
    [k \in 1..Len(memories) |->
        IF memories[k].id = memory_id
        THEN [memories[k] EXCEPT !.content = content,
                                 !.name = IF name = None THEN @ ELSE name]
        ELSE memories[k]]

\* tool.py update_memory(ctx, content, memory_id=..., name=...), lines 457-545.
\* With an id: the entry with the id gets the content, and the name when one is
\* given.  With a name only: the first entry of the agent with the name gets
\* the content.  Of the context only the agent is used.  Decorated with
\* invalidate_memory_cache.
update_memory(a, memory_id, name) ==
    /\ TasksIdle
    /\ \/ /\ memory_id = NoId /\ name = None
          /\ reply' = Result("update_memory", FALSE, NoId,
                             "Either memory_id or name must be provided")
          /\ UNCHANGED <<memories, failures>>
       \/ /\ memory_id # NoId
          /\ RepositoryWorks
          /\ IF get_memory(memory_id) = 0
             THEN /\ reply' = Result("update_memory", FALSE, NoId, "Memory with ID not found")
                  /\ UNCHANGED memories
             ELSE /\ memories' = update_memory_in_db(memory_id, format_memory_content(NewContent), name)
                  /\ reply' = Result("update_memory", TRUE, memory_id, "Memory updated successfully")
       \/ /\ memory_id = NoId /\ name # None
          /\ RepositoryWorks
          /\ IF list_memories(a, name) = <<>>
             THEN /\ reply' = Result("update_memory", FALSE, NoId, "Memory with name not found")
                  /\ UNCHANGED memories
             ELSE /\ memories' = update_memory_in_db(list_memories(a, name)[1].id,
                                                      format_memory_content(NewContent), None)
                  /\ reply' = Result("update_memory", TRUE, list_memories(a, name)[1].id,
                                     "Memory updated successfully")
       \/ /\ memory_id # NoId \/ name # None
          /\ RepositoryFails
          /\ reply' = Result("update_memory", FALSE, NoId, "Error updating memory: " \o DbError)
          /\ UNCHANGED memories
    /\ cache' = invalidate_memory_cache
    /\ UNCHANGED <<prompt_template, template_vars, agent_run_id, task, deps>>
    /\ UNCHANGED <<procVars, runVars, objVars>>

\* ----------------------------------------------------------------- listing
\* The prefixes list_memories_tool is called with; "" stands for none.
Prefixes == {"", "p", "nick"}

\* The ids and the names of a list of entries.
IdsOf(es) == [k \in 1..Len(es) |-> es[k].id]
RECURSIVE JoinLines(_)
JoinLines(es) ==
    IF Len(es) = 0 THEN ""
    ELSE IF Len(es) = 1 THEN es[1].name
    ELSE es[1].name \o "\n" \o JoinLines(Tail(es))

\* tool.py list_memories_tool(prefix), lines 223-248: list_memories_in_db()
\* without an agent, then the names that start with the prefix, one per line.
list_memories_tool(prefix) ==
    /\ TasksIdle
    /\ \/ /\ RepositoryWorks
          /\ LET found == SelectSeq(memories, LAMBDA e : prefix = "" \/ StartsWith(e.name, prefix))
             IN reply' = [Result("list_memories_tool", TRUE, NoId,
                                 IF found = <<>> THEN "No memories found" ELSE JoinLines(found))
                          EXCEPT !.listed = IdsOf(found)]
       \/ /\ RepositoryFails
          /\ reply' = Result("list_memories_tool", FALSE, NoId, "Error listing memories: " \o DbError)
    /\ UNCHANGED <<prompt_template, template_vars, memories, agent_run_id, task, deps, cache>>
    /\ UNCHANGED <<procVars, runVars, objVars>>

\* tool.py read_memory(ctx, list_all=True), lines 284-308:
\* list_memories_in_db(agent_id=agent_id), every entry of the agent.
read_memory_list_all(a, c) ==
    /\ TasksIdle
    /\ \/ /\ RepositoryWorks
          /\ reply' = [Result("read_memory_list_all", TRUE, NoId, "Found memories")
                       EXCEPT !.listed = IdsOf(SelectSeq(memories, LAMBDA e : e.agent_id = a))]
       \/ /\ RepositoryFails
          /\ reply' = Result("read_memory_list_all", FALSE, NoId, "Error listing memories: " \o DbError)
    /\ cache' = invalidate_memory_cache
    /\ UNCHANGED <<prompt_template, template_vars, memories, agent_run_id, task, deps>>
    /\ UNCHANGED <<procVars, runVars, objVars>>

\* ------------------------------------------------------ read_memory, every form
\* tool.py read_memory(ctx, memory_id=..., name=..., list_all=...), lines
\* 250-351.  Without memory_id, name and list_all: a failure at once.  With
\* list_all: the entries of the agent, whatever else is given.  Otherwise the
\* entry with the id, or the first entry of the agent with the name.  The
\* result carries the message, the id of the entry read and the ids listed.
read_memory_call(a, memory_id, name, list_all) ==
    /\ TasksIdle
    /\ \/ /\ memory_id = NoId /\ name = None /\ ~list_all
          /\ reply' = Result("read_memory", FALSE, NoId,
                             "Either memory_id, name, or list_all must be provided")
          /\ UNCHANGED failures
       \/ /\ list_all
          /\ RepositoryWorks
          /\ reply' = [Result("read_memory", TRUE, NoId, "Found memories")
                       EXCEPT !.listed = IdsOf(SelectSeq(memories, LAMBDA e : e.agent_id = a))]
       \/ /\ list_all
          /\ RepositoryFails
          /\ reply' = Result("read_memory", FALSE, NoId, "Error listing memories: " \o DbError)
       \/ /\ ~list_all /\ memory_id # NoId
          /\ RepositoryWorks
          /\ reply' = IF get_memory(memory_id) = 0
                      THEN Result("read_memory", FALSE, NoId, "Memory not found")
                      ELSE Result("read_memory", TRUE, memory_id, "Memory found")
       \/ /\ ~list_all /\ memory_id = NoId /\ name # None
          /\ RepositoryWorks
          /\ reply' = IF list_memories(a, name) = <<>>
                      THEN Result("read_memory", FALSE, NoId, "Memory not found")
                      ELSE Result("read_memory", TRUE, list_memories(a, name)[1].id, "Memory found")
       \/ /\ ~list_all /\ (memory_id # NoId \/ name # None)
          /\ RepositoryFails
          /\ reply' = Result("read_memory", FALSE, NoId, "Error reading memory: " \o DbError)
    /\ cache' = invalidate_memory_cache
    /\ UNCHANGED <<prompt_template, template_vars, memories, agent_run_id, task, deps>>
    /\ UNCHANGED <<procVars, runVars, objVars>>

\* Entries of one user are created by the agents, and read in every form.
ReadStep ==
    \/ \E a \in Agents : \E name \in ToolNames :
          /\ Len(memories) < MaxUpdated
          /\ tool_create_memory(a, [user_id |-> DefaultUser, session_id |-> None], name, "user")
    \/ \E a \in Agents : \E memory_id \in MemoryIds \cup {NoId} :
          \E name \in ToolNames \cup {None} : \E list_all \in BOOLEAN :
             read_memory_call(a, memory_id, name, list_all)

\* --------------------------------------------------------------- cached read
\* A resolution of a key through the memory cache: the cached content when
\* there is one, otherwise the content in the store, which is then cached.
cached_get_memory(key) ==
    /\ TasksIdle
    /\ IF cache[key] # Unset
       THEN /\ reply' = Result("cached_get_memory", TRUE, NoId, cache[key])
            /\ UNCHANGED cache
       ELSE /\ reply' = Result("cached_get_memory", get_memory_by_name(key, NoId) # NoId, NoId,
                               get_memory_tool(key))
            /\ cache' = IF get_memory_by_name(key, NoId) # NoId
                        THEN [cache EXCEPT ![key] = get_memory_tool(key)]
                        ELSE cache
    /\ UNCHANGED <<prompt_template, template_vars, memories, agent_run_id, task, failures, deps>>
    /\ UNCHANGED <<procVars, runVars, objVars>>

\* Entries of one user are created by the agents, and updated.
UpdateStep ==
    \/ \E a \in Agents : \E name \in ToolNames :
          /\ Len(memories) < MaxUpdated
          /\ tool_create_memory(a, [user_id |-> DefaultUser, session_id |-> None], name, "user")
    \/ \E a \in Agents : \E memory_id \in MemoryIds \cup {NoId} :
          \E name \in ToolNames \cup {None} : update_memory(a, memory_id, name)

\* Entries are created and listed.
ListStep ==
    \/ \E a \in Agents : \E c \in ToolContexts : \E name \in ToolNames :
          \E scope \in ScopeArgs : tool_create_memory(a, c, name, scope)
    \/ \E prefix \in Prefixes : list_memories_tool(prefix)
    \/ \E a \in Agents : \E c \in ToolContexts : read_memory_list_all(a, c)

\* Entries are written by the tools and read through the cache.
CacheStep ==
    \/ \E a \in Agents : \E c \in ToolContexts : \E name \in ToolNames :
          \E scope \in ScopeArgs : tool_create_memory(a, c, name, scope)
    \/ \E key \in ToolNames : store_memory_tool(key)
    \/ \E key \in ToolNames : cached_get_memory(key)

\* One call of a memory tool.
ToolStep ==
    \/ \E a \in Agents : \E c \in ToolContexts : \E name \in Names \ {"run_id"} :
          \E scope \in ScopeArgs : tool_create_memory(a, c, name, scope)
    \/ \E key \in Names \ {"run_id"} : store_memory_tool(key)
    \/ \E a \in Agents : \E c \in ToolContexts : \E name \in Names \ {"run_id"} :
          read_memory(a, c, name)

\* One step of task t.
TaskStep(t) ==
    \/ \E a \in Agents \cup {NoId} : init_begin(t, a)
    \/ init_get_memory(t)
    \/ init_create_memory(t)
    \/ \E a \in Agents \cup {NoId} : resolve_begin(t, a)
    \/ resolve_increment(t)
    \/ resolve_get_agent(t)
    \/ resolve_get_memory(t)
    \/ resolve_create_memory(t)
    \/ resolve_fill(t)
    \/ resolve_fill_raise(t)

\* No other task is in the middle of its handler.
TaskAlone(t) == \A u \in Tasks \ {t} : task[u].pc \in {"ready", "done"}

\* No other caller is inside start_server or stop_server.
Alone(c) == \A d \in Callers \ {c} : pc[d] = "idle"

\* ================================================================ Part 3
\* ------------------------------------------------------------ tool schemas
\* The tools get_tools_config has a schema for, and the parameters of each.
KnownTools ==
    {"browser_navigate", "browser_snapshot", "browser_click", "browser_type",
     "browser_take_screenshot"}
Parameters(tool) ==
    CASE tool = "browser_navigate" -> {"url"}
      [] tool = "browser_snapshot" -> {}
      [] tool = "browser_click" -> {"element", "ref"}
      [] tool = "browser_type" -> {"element", "ref", "text", "submit"}
      [] tool = "browser_take_screenshot" -> {"raw"}

\* The lists of enabled tools a configuration file may carry (none when the
\* file is missing: _load_config then returns "mcp_tools": []).
ConfigToolLists ==
    { {}, {"browser_navigate"}, {"browser_snapshot", "browser_click", "browser_hover"},
      KnownTools }

\* The schemas are handed out only while the tool-server process is live.
get_tools_config_live ==
    IF process # NoProcess /\ Alive(process)
    THEN {<<tool, Parameters(tool)>> : tool \in mcp_tools \cap KnownTools}
    ELSE {}

\* get_tools_config(): a schema for every known tool the configuration lists;
\* the mapping as the set of its pairs <<name, parameters>>.
get_tools_config == {<<tool, Parameters(tool)>> : tool \in mcp_tools \cap KnownTools}

\* No schemas have been obtained yet.
NoSchemas == [op |-> "none", config |-> {}, started |-> FALSE]

\* start_server() from entry to return, called by a caller that is alone on the
\* handle: no playwright entry, or Popen raises (both return False and leave
\* the handle as it was), or the subprocess is spawned and the URL set.
start_server(ok) ==
    /\ \/ /\ ~config_ok /\ ~ok
          /\ UNCHANGED <<process, server_url, procs>>
       \/ /\ config_ok /\ ~ok
          /\ UNCHANGED <<process, server_url, procs>>
       \/ /\ config_ok /\ ok
          /\ \E p \in Pids : procs[p] = "unborn"
          /\ procs' = [procs EXCEPT ![FreshPid] = "alive"]
          /\ process' = FreshPid
          /\ server_url' = ServerUrl
    /\ last' = Returned("start", ok, FALSE)
    /\ UNCHANGED <<config_ok, pc, target, waited, began>>

\* initialize_browser_tools(): the schemas when start_server succeeded, {} otherwise.
initialize_browser_tools(ok) == IF ok THEN get_tools_config ELSE {}

\* playwright_tools.get_tools_config() is called.
get_tools_config_call ==
    /\ schemas' = [op |-> "get_tools_config", config |-> get_tools_config, started |-> FALSE]
    /\ UNCHANGED <<mcp_tools, agent, run>>
    /\ UNCHANGED <<procVars, memVars, objVars>>

\* initialize_browser_tools() is called.
initialize_browser_tools_call ==
    /\ \A c \in Callers : pc[c] = "idle"
    /\ \E ok \in BOOLEAN :
          /\ start_server(ok)
          /\ schemas' = [op |-> "initialize_browser_tools",
                         config |-> initialize_browser_tools(ok), started |-> ok]
    /\ UNCHANGED <<mcp_tools, agent, run>>
    /\ UNCHANGED <<memVars, objVars>>

\* ------------------------------------------------------------ the agent object
\* The system prompt the constructor hands to the base class, and a
\* system_message a caller passes to run.
BasePrompt == "You are a helpful assistant."
SystemMessage == "Answer in French."
\* No agent has been constructed.  instance: self._agent_instance is set;
\* started: whether the constructor called start_server and what it returned;
\* browser_tools: browser_tools_config of _initialize_mcp_servers.
\* system_prompt: self.system_prompt; built_with: the system prompt the
\* instance in self._agent_instance was built with, None without an instance.
NoAgent ==
    [class |-> "none", use_mcp |-> FALSE, use_playwright_mcp |-> FALSE,
     instance |-> FALSE, started |-> "none", browser_tools |-> {},
     system_prompt |-> BasePrompt, built_with |-> None]

\* _initialize_agent / _initialize_pydantic_agent succeed: an instance that
\* exists is kept, otherwise one is built with self.system_prompt.
Built(ag) ==
    [ag EXCEPT !.instance = TRUE,
               !.built_with = IF ag.instance THEN @ ELSE ag.system_prompt]

\* SimpleAgent.__init__ for a configuration without agent_id (self.db_id = None):
\* no memory variable is initialized, self._agent_instance = None.
simple_init ==
    /\ agent.class = "none"
    /\ agent' = [NoAgent EXCEPT !.class = "simple"]
    /\ UNCHANGED <<mcp_tools, run, schemas>>
    /\ UNCHANGED <<procVars, memVars, objVars>>

\* A failed start of the tool-server is not caught: the constructor is aborted.
mcp_init_aborts(use_mcp, use_playwright_mcp) ==
    /\ agent.class = "none"
    /\ \A c \in Callers : pc[c] = "idle"
    /\ IF use_mcp /\ use_playwright_mcp
       THEN \E ok \in BOOLEAN :
               /\ start_server(ok)
               /\ agent' = IF ok
                           THEN [NoAgent EXCEPT !.class = "mcp", !.use_mcp = use_mcp,
                                                !.use_playwright_mcp = use_playwright_mcp,
                                                !.started = "ok",
                                                !.browser_tools = initialize_browser_tools(ok)]
                           ELSE [NoAgent EXCEPT !.class = "aborted", !.started = "failed"]
               /\ schemas' = [op |-> "initialize_browser_tools",
                              config |-> initialize_browser_tools(ok), started |-> ok]
       ELSE /\ agent' = [NoAgent EXCEPT !.class = "mcp", !.use_mcp = use_mcp,
                                        !.use_playwright_mcp = use_playwright_mcp]
            /\ UNCHANGED <<procVars, schemas>>
    /\ UNCHANGED <<mcp_tools, run>>
    /\ UNCHANGED <<memVars, objVars>>

\* McpAgentAgent.__init__, lines 84-92, with _initialize_mcp_servers, lines
\* 94-127: the Playwright server is started only when both use_mcp and
\* use_playwright_mcp are set; a failed start is logged and nothing else.
mcp_init(use_mcp, use_playwright_mcp) ==
    /\ agent.class = "none"
    /\ \A c \in Callers : pc[c] = "idle"
    /\ IF use_mcp /\ use_playwright_mcp
       THEN \E ok \in BOOLEAN :
               /\ start_server(ok)
               /\ agent' = [NoAgent EXCEPT !.class = "mcp", !.use_mcp = use_mcp,
                                           !.use_playwright_mcp = use_playwright_mcp,
                                           !.started = IF ok THEN "ok" ELSE "failed",
                                           !.browser_tools = initialize_browser_tools(ok)]
               /\ schemas' = [op |-> "initialize_browser_tools",
                              config |-> initialize_browser_tools(ok), started |-> ok]
       ELSE /\ agent' = [NoAgent EXCEPT !.class = "mcp", !.use_mcp = use_mcp,
                                        !.use_playwright_mcp = use_playwright_mcp]
            /\ UNCHANGED <<procVars, schemas>>
    /\ UNCHANGED <<mcp_tools, run>>
    /\ UNCHANGED <<memVars, objVars>>

\* ------------------------------------------------------------------- the runs
\* str(e) of the exception a collaborator raises.
ErrorText == "model unavailable"
\* result.data / response.message of a run of the model that succeeds.
Output == "Done."
\* The tool-call records a run of the model may carry.
ToolCallLists == {<<>>, <<"store_memory_tool">>}
\* text="An error occurred while processing your request."
SimpleErrorText == "An error occurred while processing your request."
\* text=f"Erro ao processar a mensagem: {str(e)}"
McpErrorText(e) == "Erro ao processar a mensagem: " \o e
\* text="Nenhuma resposta recebida do modelo"
NoResponseText == "Nenhuma resposta recebida do modelo"

\* No call of run has ended.  ended: "returned" or "raised"; cause: what failed;
\* persisted: the add_response calls on the message history, in order;
\* system_prompts: the add_system_prompt calls; llm: the model was run, and
\* llm_state, llm_url, enabled: the state of the handle, its URL and
\* self.use_playwright_mcp at that moment.
NoRun ==
    [ended |-> "none", class |-> "none", history |-> FALSE, cause |-> "none",
     success |-> FALSE, text |-> "", error_message |-> "",
     persisted |-> <<>>, system_prompts |-> 0,
     llm |-> FALSE, llm_state |-> "Stopped", llm_url |-> None, enabled |-> FALSE,
     system_message |-> FALSE, prompt_used |-> None]

\* AgentResponse(text=..., success=False, error_message=...)
Failed(r, cause, text, error_message) ==
    [r EXCEPT !.ended = "returned", !.cause = cause, !.success = FALSE,
              !.text = text, !.error_message = error_message]

\* The model is about to be run: self._agent_instance.run(...)
AtModel(r, enabled) ==
    [r EXCEPT !.llm = TRUE, !.llm_state = HandleState, !.llm_url = get_server_url,
              !.enabled = enabled, !.prompt_used = Built(agent).built_with]

\* SimpleAgent.run, lines 581-614: what precedes the try.  With a MessageHistory
\* and no message in the dependencies yet, the system prompt is stored.
SimpleStart(history, first) ==
    [NoRun EXCEPT !.class = "simple", !.history = history,
                  !.system_prompts = IF history /\ first THEN 1 ELSE 0]

\* SimpleAgent.run, line 586: _initialize_agent raises (lines 400-402); the call
\* is outside the try of run.
simple_run_build_raises(history) ==
    /\ agent.class = "simple" /\ ~agent.instance
    /\ run' = [NoRun EXCEPT !.class = "simple", !.history = history,
                            !.ended = "raised", !.cause = "build"]
    /\ UNCHANGED <<mcp_tools, agent, schemas>>
    /\ UNCHANGED <<procVars, memVars, objVars>>

\* SimpleAgent.run, lines 616-625 and 655-662: the run of the model raises.
simple_run_llm_raises(history, first) ==
    /\ agent.class = "simple"
    /\ agent' = Built(agent)
    /\ run' = Failed(AtModel(SimpleStart(history, first), FALSE), "llm", SimpleErrorText, ErrorText)
    /\ UNCHANGED <<mcp_tools, schemas>>
    /\ UNCHANGED <<procVars, memVars, objVars>>

\* SimpleAgent.run, lines 632-645 and 655-662: add_response raises; nothing is stored.
simple_run_persist_raises(first) ==
    /\ agent.class = "simple"
    /\ agent' = Built(agent)
    /\ run' = Failed(AtModel(SimpleStart(TRUE, first), FALSE), "persist", SimpleErrorText, ErrorText)
    /\ UNCHANGED <<mcp_tools, schemas>>
    /\ UNCHANGED <<procVars, memVars, objVars>>

\* SimpleAgent.run, lines 616-654: the model answers; with a MessageHistory the
\* answer and its tool calls are stored by one add_response; success.
simple_run_ok(history, first, tool_calls) ==
    /\ agent.class = "simple"
    /\ agent' = Built(agent)
    /\ run' = [AtModel(SimpleStart(history, first), FALSE) EXCEPT
                  !.ended = "returned", !.success = TRUE, !.text = Output,
                  !.persisted = IF history
                                THEN <<[content |-> Output, tool_calls |-> tool_calls]>>
                                ELSE <<>>]
    /\ UNCHANGED <<mcp_tools, schemas>>
    /\ UNCHANGED <<procVars, memVars, objVars>>

\* SimpleAgent.run with a system_message and no message in the dependencies,
\* lines 596-603: self.system_prompt = system_message, self._agent_instance =
\* None, and the second _initialize_agent raises (lines 400-402).  Nothing
\* catches it and nothing restores self.system_prompt.
simple_run_message_rebuild_raises(history) ==
    /\ agent.class = "simple"
    /\ agent' = [agent EXCEPT !.system_prompt = SystemMessage, !.instance = FALSE,
                              !.built_with = None]
    /\ run' = [NoRun EXCEPT !.class = "simple", !.history = history, !.system_message = TRUE,
                            !.ended = "raised", !.cause = "rebuild"]
    /\ UNCHANGED <<mcp_tools, schemas>>
    /\ UNCHANGED <<procVars, memVars, objVars>>

\* What precedes the try when a system_message is given, lines 596-613: the
\* instance is rebuilt with the system_message and self.system_prompt is
\* restored; with a MessageHistory both prompts are stored.
SimpleMessageStart(history) ==
    [NoRun EXCEPT !.class = "simple", !.history = history, !.system_message = TRUE,
                  !.system_prompts = IF history THEN 2 ELSE 0,
                  !.llm = TRUE, !.llm_state = HandleState, !.llm_url = get_server_url,
                  !.prompt_used = SystemMessage]

\* SimpleAgent.run with a system_message, lines 596-625 and 655-662: the run
\* of the model, or add_response, raises.
simple_run_message_fails(history, cause) ==
    /\ agent.class = "simple"
    /\ cause = "persist" => history
    /\ agent' = [agent EXCEPT !.instance = TRUE, !.built_with = SystemMessage]
    /\ run' = Failed(SimpleMessageStart(history), cause, SimpleErrorText, ErrorText)
    /\ UNCHANGED <<mcp_tools, schemas>>
    /\ UNCHANGED <<procVars, memVars, objVars>>

\* SimpleAgent.run with a system_message, lines 596-654: the model answers.
simple_run_message_ok(history, tool_calls) ==
    /\ agent.class = "simple"
    /\ agent' = [agent EXCEPT !.instance = TRUE, !.built_with = SystemMessage]
    /\ run' = [SimpleMessageStart(history) EXCEPT
                  !.ended = "returned", !.success = TRUE, !.text = Output,
                  !.persisted = IF history
                                THEN <<[content |-> Output, tool_calls |-> tool_calls]>>
                                ELSE <<>>]
    /\ UNCHANGED <<mcp_tools, schemas>>
    /\ UNCHANGED <<procVars, memVars, objVars>>

\* McpAgentAgent.run, lines 270-300, for an agent without db_id.
McpStart(history) == [NoRun EXCEPT !.class = "mcp", !.history = history]

\* use_playwright_mcp after lines 301-305: set by the channel payload, or as it was.
Enabled(payload) == agent.use_playwright_mcp \/ payload

\* McpAgentAgent.run, lines 276 and 338-344: _initialize_pydantic_agent raises
\* (lines 181-183); the try of run catches it.
mcp_run_build_raises(history) ==
    /\ agent.class = "mcp" /\ ~agent.instance
    /\ run' = Failed(McpStart(history), "build", McpErrorText(ErrorText), ErrorText)
    /\ UNCHANGED <<mcp_tools, agent, schemas>>
    /\ UNCHANGED <<procVars, memVars, objVars>>

\* McpAgentAgent.run, lines 291-293 and 338-344: get_filled_system_prompt raises.
mcp_run_prompt_raises(history) ==
    /\ agent.class = "mcp"
    /\ agent' = Built(agent)
    /\ run' = Failed(McpStart(history), "prompt", McpErrorText(ErrorText), ErrorText)
    /\ UNCHANGED <<mcp_tools, schemas>>
    /\ UNCHANGED <<procVars, memVars, objVars>>

\* McpAgentAgent.run, lines 301-311 and 338-344: the run of the model raises.
mcp_run_llm_raises(history, payload) ==
    /\ agent.class = "mcp"
    /\ agent' = [Built(agent) EXCEPT !.use_playwright_mcp = Enabled(payload)]
    /\ run' = Failed(AtModel(McpStart(history), Enabled(payload)), "llm",
                     McpErrorText(ErrorText), ErrorText)
    /\ UNCHANGED <<mcp_tools, schemas>>
    /\ UNCHANGED <<procVars, memVars, objVars>>

\* McpAgentAgent.run, lines 301-317: the model returns None.
mcp_run_no_response(history, payload) ==
    /\ agent.class = "mcp"
    /\ agent' = [Built(agent) EXCEPT !.use_playwright_mcp = Enabled(payload)]
    /\ run' = Failed(AtModel(McpStart(history), Enabled(payload)), "no_response",
                     NoResponseText, "")
    /\ UNCHANGED <<mcp_tools, schemas>>
    /\ UNCHANGED <<procVars, memVars, objVars>>

\* McpAgentAgent.run, lines 301-336: the model answers; the response is built
\* from the message and the tool calls and returned.
mcp_run_ok(history, payload) ==
    /\ agent.class = "mcp"
    /\ agent' = [Built(agent) EXCEPT !.use_playwright_mcp = Enabled(payload)]
    /\ run' = [AtModel(McpStart(history), Enabled(payload)) EXCEPT
                  !.ended = "returned", !.success = TRUE, !.text = Output]
    /\ UNCHANGED <<mcp_tools, schemas>>
    /\ UNCHANGED <<procVars, memVars, objVars>>

\* Before any agent is constructed and any schema obtained.
RunInit ==
    /\ mcp_tools \in ConfigToolLists
    /\ agent = NoAgent
    /\ run = NoRun
    /\ schemas = NoSchemas

\* Constructions, runs and schema requests, one after another.
RunNext ==
    \/ simple_init
    \/ \E use_mcp, use_playwright_mcp \in BOOLEAN : mcp_init(use_mcp, use_playwright_mcp)
    \/ \E history \in BOOLEAN : simple_run_build_raises(history)
    \/ \E history, first \in BOOLEAN : simple_run_llm_raises(history, first)
    \/ \E first \in BOOLEAN : simple_run_persist_raises(first)
    \/ \E history, first \in BOOLEAN : \E tool_calls \in ToolCallLists :
          simple_run_ok(history, first, tool_calls)
    \/ \E history \in BOOLEAN : simple_run_message_rebuild_raises(history)
    \/ \E history \in BOOLEAN : \E cause \in {"llm", "persist"} :
          simple_run_message_fails(history, cause)
    \/ \E history \in BOOLEAN : \E tool_calls \in ToolCallLists :
          simple_run_message_ok(history, tool_calls)
    \/ \E history \in BOOLEAN : mcp_run_build_raises(history)
    \/ \E history \in BOOLEAN : mcp_run_prompt_raises(history)
    \/ \E history, payload \in BOOLEAN : mcp_run_llm_raises(history, payload)
    \/ \E history, payload \in BOOLEAN : mcp_run_no_response(history, payload)
    \/ \E history, payload \in BOOLEAN : mcp_run_ok(history, payload)
    \/ get_tools_config_call
    \/ initialize_browser_tools_call

\* ================================================================ Part 4
\* --------------------------------- calls of process_message on one agent object
\* A call of process_message that has not begun.
NoCallYet ==
    [pc |-> "ready", agent_id |-> NoId, user_id |-> NoId, session_id |-> None,
     history |-> FALSE, resolved |-> <<>>, tool |-> <<>>, persisted |-> <<>>]
\* An McpAgentAgent object that has not been constructed.
NoPeer == [phase |-> "none", use_playwright_mcp |-> FALSE, began_on |-> "Stopped"]

\* The agent object was constructed without agent_id; nothing has called it.
ObjInit ==
    /\ db_id = NoId
    /\ calls = [c \in Callers |-> NoCallYet]
    /\ peers = [c \in Callers |-> NoPeer]

Init == ProcInit /\ MemInit /\ RunInit /\ ObjInit

\* The user ids and session ids the callers of process_message pass.
CallUsers == {1, 2}
CallSessions == {"s1", "s2"}

\* _initialize_memory_variables_sync and _check_and_ensure_memory_variables when
\* the repository works, lines 179-242 and 530-563: each memory variable of the
\* template without an entry of agent a gets one with its default content.
HasEntry(mem, name, a) == \E k \in 1..Len(mem) : mem[k].name = name /\ mem[k].agent_id = a
RECURSIVE EnsureMemoryVariables(_, _, _)
EnsureMemoryVariables(mem, names, a) ==
    IF names = <<>> THEN mem
    ELSE EnsureMemoryVariables(
            IF HasEntry(mem, Head(names), a) THEN mem
            ELSE Append(mem, [id |-> Len(mem) + 1, name |-> Head(names),
                              content |-> DefaultContent(Head(names)), agent_id |-> a,
                              user_id |-> NoId, session_id |-> None]),
            Tail(names), a)

\* process_message(user_message, session_id, agent_id, user_id, message_history)
\* up to the request to the model, lines 716-767, and SimpleAgent.run up to
\* `await self._agent_instance.run(...)`, lines 582-625, with the dynamic
\* system prompt of lines 412-445: nothing here suspends the coroutine, so it
\* is one step.  The ids are stored in the fields of the agent object and of
\* its dependencies; the template is resolved for self.db_id.
process_message_begin(c, agent_id, user_id, session_id, history) ==
    /\ calls[c].pc = "ready"
    /\ LET updated == agent_id # NoId /\ agent_id # db_id
           id == IF updated THEN agent_id ELSE db_id
       IN /\ db_id' = id
          /\ deps' = [user_id |-> user_id,
                      session_id |-> IF session_id # None THEN session_id ELSE deps.session_id]
          /\ memories' = IF id # NoId THEN EnsureMemoryVariables(memories, memory_vars, id)
                         ELSE memories
          /\ agent_run_id' = IF id # NoId THEN increment_agent_run_id(id) ELSE agent_run_id
          /\ calls' = [calls EXCEPT ![c] =
                          [NoCallYet EXCEPT !.pc = "model", !.agent_id = agent_id,
                                            !.user_id = user_id, !.session_id = session_id,
                                            !.history = history, !.resolved = <<id>>]]
    /\ UNCHANGED <<prompt_template, template_vars, task, failures, reply, cache, peers>>
    /\ UNCHANGED <<procVars, runVars>>

\* While the model runs it asks for a memory tool: map_agent_id, tool.py lines
\* 57-110, reads the agent id, the user id and the session id from ctx.deps,
\* which is self.dependencies (agent.py line 624).
process_message_tool(c) ==
    /\ calls[c].pc = "model" /\ calls[c].tool = <<>>
    /\ calls' = [calls EXCEPT ![c].tool = <<[agent_id |-> db_id, user_id |-> deps.user_id,
                                             session_id |-> deps.session_id]>>]
    /\ UNCHANGED <<db_id, peers>>
    /\ UNCHANGED <<procVars, memVars, runVars>>

\* The run of the model ends, lines 626-662: when it answered and a
\* MessageHistory was given, add_response(..., agent_id=self.db_id); when it
\* raised, nothing is stored.
process_message_end(c, answered) ==
    /\ calls[c].pc = "model"
    /\ calls' = [calls EXCEPT ![c].pc = "done",
                              ![c].persisted = IF answered /\ calls[c].history
                                               THEN <<db_id>> ELSE <<>>]
    /\ UNCHANGED <<db_id, peers>>
    /\ UNCHANGED <<procVars, memVars, runVars>>

\* Coroutines on one event loop: the calls interleave where they wait for the model.
CallsNext ==
    \/ \E c \in Callers : \E agent_id \in Agents \cup {NoId} : \E user_id \in CallUsers :
       \E session_id \in CallSessions \cup {None} : \E history \in BOOLEAN :
          process_message_begin(c, agent_id, user_id, session_id, history)
    \/ \E c \in Callers : process_message_tool(c)
    \/ \E c \in Callers : \E answered \in BOOLEAN : process_message_end(c, answered)

\* ------------------------------- McpAgentAgent objects sharing playwright_tools
\* McpAgentAgent.__init__ with use_mcp, lines 48-92, and _initialize_mcp_servers,
\* lines 94-127: with use_playwright_mcp, initialize_browser_tools() starts a
\* server on the module-level handle.
peer_init(c, use_playwright_mcp, ok) ==
    /\ peers[c].phase = "none"
    /\ \A d \in Callers : pc[d] = "idle"
    /\ IF use_playwright_mcp
       THEN start_server(ok)
       ELSE ~ok /\ UNCHANGED procVars
    /\ peers' = [peers EXCEPT ![c] = [NoPeer EXCEPT !.phase = "idle",
                                                    !.use_playwright_mcp = use_playwright_mcp]]
    /\ UNCHANGED <<db_id, calls>>
    /\ UNCHANGED <<memVars, runVars>>

\* McpAgentAgent.run up to `await self._agent_instance.run(...)`, lines 270-310:
\* the channel payload may enable the browser tools; the run then waits for the model.
peer_run_begin(c, payload) ==
    /\ peers[c].phase = "idle"
    /\ peers' = [peers EXCEPT ![c].phase = "running",
                              ![c].use_playwright_mcp = @ \/ payload,
                              ![c].began_on = HandleState]
    /\ UNCHANGED <<db_id, calls>>
    /\ UNCHANGED <<procVars, memVars, runVars>>

\* McpAgentAgent.run, lines 311-344: the model answered or raised; run returns.
peer_run_end(c) ==
    /\ peers[c].phase = "running"
    /\ peers' = [peers EXCEPT ![c].phase = "idle"]
    /\ UNCHANGED <<db_id, calls>>
    /\ UNCHANGED <<procVars, memVars, runVars>>

\* McpAgentAgent.shutdown, lines 346-360: with use_playwright_mcp,
\* shutdown_browser_tools() = playwright_tools.stop_server() (browser_tools.py
\* lines 74-89 and 183-185), which does not return to the event loop before it
\* ends: terminate, then the subprocess exits within the wait or is killed.
peer_shutdown(c) ==
    /\ peers[c].phase = "idle"
    /\ \A d \in Callers : pc[d] = "idle"
    /\ IF peers[c].use_playwright_mcp /\ process # NoProcess
       THEN \E graceful \in BOOLEAN :
               /\ ~Alive(process) => graceful
               /\ procs' = [procs EXCEPT ![process] =
                               IF Alive(process)
                               THEN (IF graceful THEN "exited" ELSE "killed") ELSE @]
               /\ last' = Returned("stop", graceful, HandleState = "Stopped")
       ELSE /\ last' = IF peers[c].use_playwright_mcp
                       THEN Returned("stop", TRUE, HandleState = "Stopped") ELSE last
            /\ UNCHANGED procs
    /\ peers' = [peers EXCEPT ![c].phase = "shut"]
    /\ UNCHANGED <<config_ok, process, server_url, pc, target, waited, began>>
    /\ UNCHANGED <<db_id, calls>>
    /\ UNCHANGED <<memVars, runVars>>

\* The agents live on one event loop; their runs wait for the model independently.
PeersNext ==
    \/ \E c \in Callers : \E use_playwright_mcp, ok \in BOOLEAN : peer_init(c, use_playwright_mcp, ok)
    \/ \E c \in Callers : \E payload \in BOOLEAN : peer_run_begin(c, payload)
    \/ \E c \in Callers : peer_run_end(c)
    \/ \E c \in Callers : peer_shutdown(c)

\* The handle reads neither the template nor the store, the tasks do not read
\* the handle, and the memory tools read neither the handle nor the agent object:
\* the specifications of each part start the other parts in one state.
InitHandle ==
    /\ Init
    /\ prompt_template = "User notes: {{personal_attributes}}. Run #{{run_id}}."
    /\ template_vars = <<"personal_attributes", "run_id">>
    /\ deps = [user_id |-> NoId, session_id |-> None]
    /\ mcp_tools = {}
InitTasks == Init /\ config_ok /\ deps = [user_id |-> NoId, session_id |-> None] /\ mcp_tools = {}

\* Callers on their own threads: the steps of their calls interleave.
ProcNext ==
    \/ \E c \in Callers : HandleStep(c)
    \/ \E p \in Pids : proc_exit(p)

\* Callers one after another: a call begins only when no other is in progress.
ProcSeqNext ==
    \/ \E c \in Callers : Alone(c) /\ start_server_noconfig(c)
    \/ \E c \in Callers : Alone(c) /\ start_server_raise(c)
    \/ \E c \in Callers : Alone(c) /\ start_server_popen(c)
    \/ \E c \in Callers : Alone(c) /\ start_server_url(c)
    \/ \E c \in Callers : Alone(c) /\ stop_server_noprocess(c)
    \/ \E c \in Callers : Alone(c) /\ stop_server_terminate(c)
    \/ \E c \in Callers : Alone(c) /\ stop_server_wait(c)
    \/ \E c \in Callers : Alone(c) /\ wait_tick(c)
    \/ \E c \in Callers : Alone(c) /\ stop_server_waited(c)
    \/ \E c \in Callers : Alone(c) /\ stop_server_timeout(c)
    \/ \E c \in Callers : Alone(c) /\ stop_server_kill(c)
    \/ \E p \in Pids : proc_exit(p)

\* Tasks in different threads or worker processes on the one database: their
\* repository calls interleave.
MemNext == \E t \in Tasks : TaskStep(t)

\* Tasks one after another.
MemSeqNext ==
    \/ \E t \in Tasks : \E a \in Agents \cup {NoId} : TaskAlone(t) /\ init_begin(t, a)
    \/ \E t \in Tasks : TaskAlone(t) /\ init_get_memory(t)
    \/ \E t \in Tasks : TaskAlone(t) /\ init_create_memory(t)
    \/ \E t \in Tasks : \E a \in Agents \cup {NoId} : TaskAlone(t) /\ resolve_begin(t, a)
    \/ \E t \in Tasks : TaskAlone(t) /\ resolve_increment(t)
    \/ \E t \in Tasks : TaskAlone(t) /\ resolve_get_agent(t)
    \/ \E t \in Tasks : TaskAlone(t) /\ resolve_get_memory(t)
    \/ \E t \in Tasks : TaskAlone(t) /\ resolve_create_memory(t)
    \/ \E t \in Tasks : TaskAlone(t) /\ resolve_fill(t)
    \/ \E t \in Tasks : TaskAlone(t) /\ resolve_fill_raise(t)

\* The contents an entry written earlier through create_memory or update_memory
\* may hold: none, a text that begins like the not-found message, any other.
SeedContents == {"", "Memory with key to the shed: under the mat", StoredContent}
\* The store before the tasks: empty, or one entry of a template variable.
SeededStores ==
    {<<>>} \cup
    {<<[id |-> 1, name |-> n, content |-> c, agent_id |-> a, user_id |-> NoId, session_id |-> None]>> :
        n \in Names \ {"run_id"}, c \in SeedContents, a \in Agents}
\* The tasks start on a store that may hold an entry.
InitSeeded ==
    /\ ProcInit /\ config_ok /\ RunInit /\ mcp_tools = {} /\ ObjInit
    /\ prompt_template \in Templates
    /\ template_vars \in extract_template_variables(prompt_template)
    /\ memories \in SeededStores
    /\ agent_run_id = [a \in Agents |-> BaseRunId]
    /\ task = [t \in Tasks |-> NewTask]
    /\ failures = 0
    /\ deps = [user_id |-> NoId, session_id |-> None]
    /\ reply = NoReply
    /\ cache = EmptyCache

InitTools == InitHandle /\ config_ok
\* Any run context; the handle is left out.
InitStore == Init /\ config_ok /\ mcp_tools = {}
\* Any configuration; the template and the run context are left out.
InitRun == Init /\ prompt_template = "User notes: {{personal_attributes}}. Run #{{run_id}}."
              /\ template_vars = <<"personal_attributes", "run_id">>
              /\ deps = [user_id |-> NoId, session_id |-> None]

SpecProc == InitHandle /\ [][ProcNext]_vars
SpecProcSeq == InitHandle /\ [][ProcSeqNext]_vars
\* Callers one after another; time passes and every call in progress goes on:
\* wait(timeout=5) returns or raises when its time is up, and the statements
\* after it are run.
SpecProcSeqLive == InitHandle /\ [][ProcSeqNext]_vars /\ WF_vars(ProcSeqNext)
SpecMem == InitTasks /\ [][MemNext]_vars
SpecMemSeq == InitTasks /\ [][MemSeqNext]_vars
\* Tasks one after another, on a store that may hold an entry.
SpecMemSeeded == InitSeeded /\ [][MemSeqNext]_vars
\* Tasks one after another, in any run context.
SpecMemCtx == InitStore /\ [][MemSeqNext]_vars
\* Calls of the memory tools, one after another.
SpecStore == InitTools /\ [][ToolStep]_vars
\* Calls of create_memory and update_memory, one after another.
SpecUpdate == InitTools /\ [][UpdateStep]_vars
\* Calls of create_memory and of read_memory, one after another.
SpecRead == InitTools /\ [][ReadStep]_vars
\* Calls of create_memory and of the listing tools, one after another.
SpecList == InitTools /\ [][ListStep]_vars
\* Writes by the memory tools and reads through the cache, one after another.
SpecCache == InitTools /\ [][CacheStep]_vars
\* An agent is constructed and run.
SpecRun == InitRun /\ [][RunNext]_vars
\* McpAgentAgent objects of one process: they share the handle playwright_tools.
SpecPeers == InitHandle /\ [][PeersNext]_vars
\* Calls of process_message on one SimpleAgent object constructed without agent_id.
SpecCalls == InitTools /\ [][CallsNext]_vars

\* ------------------------------------------------- extraction on its own
\* The pieces the templates of the extraction runs are made of: placeholders,
\* and texts that look like one but are not (a digit in the name, no name,
\* single braces, a brace too many).
Pieces == {"{{a}}", "{{b_c}}", "{{a1}}", "{{}}", "{a}", "{{{B}}}"}
PieceSeqs == UNION {[1..n -> Pieces] : n \in 0..MaxPieces}
RECURSIVE Join(_)
Join(ps) == IF Len(ps) = 0 THEN "" ELSE Head(ps) \o Join(Tail(ps))
ExtractTemplates == {Join(ps) : ps \in PieceSeqs}

\* An agent object under construction: the template is set (line 114), the
\* variables are not extracted yet.
InitExtract ==
    /\ ProcInit /\ config_ok
    /\ prompt_template \in ExtractTemplates
    /\ template_vars = <<>>
    /\ memories = <<>>
    /\ agent_run_id = [a \in Agents |-> BaseRunId]
    /\ task = [t \in Tasks |-> NewTask]
    /\ failures = 0
    /\ deps = [user_id |-> NoId, session_id |-> None]
    /\ reply = NoReply
    /\ cache = EmptyCache
    /\ RunInit /\ mcp_tools = {}
    /\ ObjInit

\* line 127: self.template_vars = self._extract_template_variables(self.prompt_template)
set_template_vars ==
    /\ template_vars' \in extract_template_variables(prompt_template)
    /\ UNCHANGED <<prompt_template, memories, agent_run_id, task, failures, deps, reply, cache>>
    /\ UNCHANGED <<procVars, runVars, objVars>>

\* Extraction called on a template, any number of times.
SpecExtract == InitExtract /\ [][set_template_vars]_vars

\* ------------------------------------------------ substitution on its own
\* The values a resolution may have collected: run_id as a number, a memory
\* variable as the stored content, which may itself hold a placeholder.
RunIdValues == {"1", "7"}
FillValues == {"likes tea", "{{nickname}}", "{{personal_attributes}}", "{{run_id}}"}
\* template_values before the substitution: run_id and every memory variable
\* of the template have a value, the other names have none.
TemplateValues ==
    {v \in [Names -> RunIdValues \cup FillValues \cup {Unset}] :
        /\ v["run_id"] \in RunIdValues
        /\ \A n \in Names \ {"run_id"} :
              IF \E k \in 1..Len(memory_vars) : memory_vars[k] = n
              THEN v[n] \in FillValues ELSE v[n] = Unset}

\* A resolution without database id has collected its values (lines 413-482).
InitFill ==
    /\ ProcInit /\ config_ok /\ RunInit /\ mcp_tools = {} /\ ObjInit
    /\ prompt_template \in Templates
    /\ template_vars \in extract_template_variables(prompt_template)
    /\ memories = <<>>
    /\ agent_run_id = [a \in Agents |-> BaseRunId]
    /\ \E v \in TemplateValues :
          task = [t \in Tasks |->
                    IF t = 1
                    THEN [NewTask EXCEPT !.kind = "resolve", !.pc = "fill",
                                         !.i = Len(memory_vars), !.values = v]
                    ELSE NewTask]
    /\ failures = 0
    /\ deps = [user_id |-> NoId, session_id |-> None]
    /\ reply = NoReply
    /\ cache = EmptyCache

FillNext ==
    \/ \E t \in Tasks : resolve_fill(t)
    \/ \E t \in Tasks : resolve_fill_raise(t)

\* The substitution applied to collected values.
SpecFill == InitFill /\ [][FillNext]_vars

\* =================================================================== claims
\* ------------------------------------------------------- the tool-server handle
StopPcs == {"stop_waitcall", "stop_wait", "stop_kill"}

\* C3: start on a handle that is already Running does not spawn a second
\* process: while the handle is Running, no step turns an unborn subprocess
\* into a spawned one.
C3_StartOnRunningSpawnsNothing ==
    [][HandleState = "Running" =>
         \A p \in Pids : procs[p] = "unborn" => procs'[p] = "unborn"]_vars

\* C4: at most one subprocess spawned by the handle is alive, and an alive
\* subprocess is the one the handle references.
C4_SingleLiveOwned ==
    /\ Cardinality({p \in Pids : Alive(p)}) <= 1
    /\ \A p \in Pids : Alive(p) => process = p

\* C5: start_server and stop_server are mutually exclusive on the shared handle:
\* no two callers are inside them at the same time.
C5_MutualExclusion ==
    \A c, d \in Callers : c # d => ~(pc[c] # "idle" /\ pc[d] # "idle")

\* C6 (as claimed): whenever stop() returns and the handle's process has ended,
\* gracefully or by the force-kill, it returns true.
C6_TrueWheneverEnded ==
    [][\A c \in Callers :
         (pc[c] \in StopPcs /\ pc'[c] = "idle" /\ ~Live') => last'.val = TRUE]_vars

\* C6 (amended): stop() returns true when the Popen object its wait blocked on
\* ended within the grace period; the grace period expires only after
\* GraceTimeout time units with that subprocess still running, and then stop()
\* force-kills the handle's process and returns false although that process
\* has ended.
C6_FalseAfterForceKill ==
    [][\A c \in Callers :
         /\ (pc[c] = "stop_wait" /\ pc'[c] = "idle") =>
                (last' = Returned("stop", TRUE, began[c]) /\ ~Alive(target[c]))
         /\ (pc[c] = "stop_wait" /\ pc'[c] = "stop_kill") =>
                (waited[c] = GraceTimeout /\ Alive(target[c]))
         /\ (pc[c] = "stop_kill" /\ pc'[c] = "idle") =>
                (last' = Returned("stop", FALSE, began[c]) /\ ~Live')]_vars

\* C6 witness: a stop() has returned false and the handle's process was force-killed.
C6_Witness ==
    /\ last.op = "stop" /\ last.val = FALSE
    /\ process # NoProcess /\ procs[process] = "killed"

\* C7: stop() on a handle that was never started or has already been stopped
\* returns success, changes neither the handle nor any subprocess, and does
\* not reach the kill.
C7_StopOnStoppedIsNoOp ==
    [][\A c \in Callers :
         (\/ HandleState = "Stopped" /\ (stop_server_noprocess(c) \/ stop_server_terminate(c))
          \/ pc[c] \in StopPcs /\ began[c])
         => /\ process' = process
            /\ server_url' = server_url
            /\ procs' = procs
            /\ pc'[c] # "stop_kill"
            /\ (pc'[c] = "idle" => last' = Returned("stop", TRUE, TRUE))]_vars

\* C7 witness: a stop() on an already stopped handle (its process has ended)
\* has returned true.
C7_Witness ==
    /\ last = Returned("stop", TRUE, TRUE)
    /\ process # NoProcess /\ ~Alive(process)

\* C8: endpoint() returns a URL only while the handle is Running: with no call
\* in progress and the handle Stopped (never started, failed start, or stopped)
\* it returns none.
C8_NoUrlWhenStopped ==
    (HandleState = "Stopped" /\ \A c \in Callers : pc[c] = "idle") => get_server_url = None

\* C9: a start that fails from a Stopped handle (never started or previously
\* stopped) reports failure and leaves the handle Stopped, with no running
\* process recorded and no endpoint URL exposed.
C9_FailedStartLeavesStopped ==
    [][\A c \in Callers :
         (HandleState = "Stopped" /\ (start_server_noconfig(c) \/ start_server_raise(c)))
         => /\ last'.op = "start" /\ last'.val = FALSE
            /\ HandleState' = "Stopped"
            /\ get_server_url' = None]_vars

\* C10: the handle's state changes only along Stopped -> Starting -> Running and
\* Running -> Stopping -> Stopped, and a start from Stopped spawns a fresh
\* process and ends Running with the endpoint URL.
Lifecycle ==
    { <<"Stopped", "Starting">>, <<"Starting", "Running">>,
      <<"Running", "Stopping">>, <<"Stopping", "Stopped">> }
C10_LifecycleOnly ==
    [][/\ HandleState' # HandleState => <<HandleState, HandleState'>> \in Lifecycle
       /\ \A c \in Callers :
            (HandleState = "Stopped" /\ start_server_popen(c)) =>
                (procs[process'] = "unborn" /\ HandleState' = "Starting")
       /\ \A c \in Callers :
            start_server_url(c) => (HandleState' = "Running" /\ get_server_url' = ServerUrl)]_vars

\* ------------------------------------------------ the memory store, the counter
\* The entries of the store under the key (agent a, name n).
EntriesOf(a, n) ==
    {k \in 1..Len(memories) : memories[k].name = n /\ memories[k].agent_id = a}

\* The tasks of agent a that have finished and hold an entry of a for name n.
HoldersOf(a, n) ==
    {t \in Tasks : /\ task[t].db_id = a /\ task[t].pc = "done"
                   /\ task[t].got[n] # NoId
                   /\ memories[task[t].got[n]].agent_id = a}

\* C1: for every key (agent, name), find-or-create run by several callers on a
\* store without an entry for the key leaves exactly one entry under the key,
\* and every caller ends up with the same entry id.
C1_FindOrCreateOnce ==
    \A a \in Agents : \A n \in Names \ {"run_id"} :
        /\ Cardinality(EntriesOf(a, n)) <= 1
        /\ Cardinality({task[t].got[n] : t \in HoldersOf(a, n)}) <= 1

\* The resolutions of agent a that have finished.
ResolutionsOf(a) ==
    {t \in Tasks : task[t].kind = "resolve" /\ task[t].db_id = a /\ task[t].pc = "done"}

\* C2: for a fixed agent, with a working repository and no resolution in
\* progress, the run_id values substituted by its N finished resolutions are
\* the N different values 1..N: none repeated, none left out.
C2_RunIdsSerial ==
    (failures = 0 /\ \A t \in Tasks : task[t].pc \in {"ready", "done"}) =>
        \A a \in Agents :
            {task[t].values["run_id"] : t \in ResolutionsOf(a)}
                = {ToString(k) : k \in 1..Cardinality(ResolutionsOf(a))}

\* ------------------------------------------------------ degraded resolutions
\* The resolutions that have returned.
Resolved == {t \in Tasks : task[t].kind = "resolve" /\ task[t].pc = "done"}

\* The memory variables of task t for which a repository call failed.
FailedMemoryVars(t) ==
    {f.var : f \in {g \in task[t].failed : g.call \in {"get_memory", "create_memory"}}}

\* C11: when the repository fails while a memory variable is being resolved,
\* the resolution still returns, the variable is given the generic fallback
\* text "None stored yet" and the filled template holds no placeholder of it.
C11_FailedVariableGetsFallback ==
    \A t \in Resolved : Failure("substitute", "") \notin task[t].failed =>
        \A v \in FailedMemoryVars(t) :
            /\ task[t].values[v] = GenericDefault
            /\ Find(task[t].result, "{{" \o v \o "}}", 1) = 0

\* The positions of a resolution at which the resolver has a step to take
\* whatever the call at that position answers.
ResolveSteps == {"increment", "get_agent", "get_memory", "create_memory", "fill"}

\* C12: template resolution never raises to its caller: a resolution in
\* progress always has a next step whatever the repository calls answered, no
\* resolution ends in an exception, every resolution that returned handed back
\* a string, and when the substitution raised that string is the original
\* template, unmodified.
C12_NeverRaises ==
    /\ \A t \in Tasks : task[t].pc # "raised"
    /\ \A t \in Tasks :
          (task[t].kind = "resolve" /\ task[t].pc # "done") => task[t].pc \in ResolveSteps
    /\ \A t \in Resolved :
          /\ task[t].result # Unset
          /\ Failure("substitute", "") \in task[t].failed => task[t].result = prompt_template

\* C12 witness: a resolution whose substitution raised has returned the template
\* with its placeholders still in it.
C12_Witness ==
    \E t \in Resolved :
        /\ Failure("substitute", "") \in task[t].failed
        /\ task[t].result = prompt_template
        /\ Find(task[t].result, "{{", 1) # 0

\* C13: when incrementing the agent's run counter fails, by reporting failure
\* or by raising, the resolution substitutes the fixed value "1" for run_id and
\* records run_id among the variables with errors.
C13_IncrementFailureFallsBack ==
    \A t \in Resolved : Failure("increment", "run_id") \in task[t].failed =>
        /\ task[t].values["run_id"] = RunIdFallback
        /\ "run_id" \in task[t].errors

\* The variables of resolution t whose resolution failed: a repository call for
\* them failed, or (without an agent id) no entry was found and none could be
\* created, so the fallback text was substituted.
Degraded(t) ==
    {f.var : f \in {g \in task[t].failed : g.call # "substitute"}}
    \cup {v \in Names \ {"run_id"} :
            /\ task[t].db_id = NoId
            /\ task[t].got[v] = NoId
            /\ task[t].values[v] = GenericDefault}

\* C14: at the end of a resolution the recorded set of variables with errors is
\* exactly the set of variables whose resolution failed.
C14_DegradedExactly ==
    \A t \in Resolved : task[t].errors = Degraded(t)

\* The resolutions of agent a that have called increment_agent_run_id.
Incremented(a) ==
    {t \in Tasks : /\ task[t].kind = "resolve" /\ task[t].db_id = a
                   /\ task[t].pc \notin {"ready", "increment"}}

ScopeKey(e) == <<e.agent_id, e.user_id, e.session_id, e.name>>

\* C16: after any sequence of create operations no two entries of the store
\* share the same (agentId, userId, sessionId, name) tuple.
C16_UniqueScopeKeys ==
    \A j, k \in 1..Len(memories) :
        j # k => ScopeKey(memories[j]) # ScopeKey(memories[k])

\* The entries of agent a named n that the run context c may see at each scope.
SessionEntries(a, c, n) ==
    {k \in 1..Len(memories) :
        /\ memories[k].agent_id = a /\ memories[k].name = n
        /\ c.session_id # None
        /\ memories[k].user_id = c.user_id /\ memories[k].session_id = c.session_id}
UserEntries(a, c, n) ==
    {k \in 1..Len(memories) :
        /\ memories[k].agent_id = a /\ memories[k].name = n
        /\ memories[k].user_id = c.user_id /\ memories[k].session_id = None}
GlobalEntries(a, n) ==
    {k \in 1..Len(memories) :
        /\ memories[k].agent_id = a /\ memories[k].name = n
        /\ memories[k].user_id = NoId /\ memories[k].session_id = None}

\* The ids of the most specific entries present: session, else user, else global.
MostSpecific(a, c, n) ==
    LET ks == IF SessionEntries(a, c, n) # {} THEN SessionEntries(a, c, n)
              ELSE IF UserEntries(a, c, n) # {} THEN UserEntries(a, c, n)
              ELSE GlobalEntries(a, n)
    IN {memories[k].id : k \in ks}

\* C17: a lookup by name under a run context returns the most specific entry
\* present for the agent: the session entry, else the user entry, else the
\* global entry; it finds nothing only when none of the three is present.
C17_MostSpecificWins ==
    [][\A a \in Agents : \A c \in ToolContexts : \A n \in Names \ {"run_id"} :
          (read_memory(a, c, n) /\ failures' = failures /\ C16_UniqueScopeKeys)
              => IF MostSpecific(a, c, n) = {}
                 THEN ~reply'.success
                 ELSE reply'.success /\ reply'.id \in MostSpecific(a, c, n)]_vars

\* The scope implied by the ids of a run context: the session of the user when a
\* session id is supplied, else the user, else global.
ImpliedUser(c) == IF c.session_id # None \/ c.user_id # NoId THEN c.user_id ELSE NoId
ImpliedSession(c) == IF c.session_id # None THEN c.session_id ELSE None

\* C18: the entry that find-or-create stores when it found none is scoped by the
\* ids supplied with the run (session if a session id, else user if a user id,
\* else global) and carries the default content of its variable.
C18_CreatedAtImpliedScope ==
    [][\A t \in Tasks :
          ((init_create_memory(t) \/ resolve_create_memory(t)) /\ Len(memories') > Len(memories))
              => LET e == memories'[Len(memories')]
                 IN /\ e.user_id = ImpliedUser(deps)
                    /\ e.session_id = ImpliedSession(deps)
                    /\ e.content \in {DefaultContent(e.name), GenericDefault}]_vars

\* A text is an identifier: one or more letters and underscores.
IsIdentifier(s) == Len(s) > 0 /\ \A k \in 1..Len(s) : SubSeq(s, k, k) \in IdentChars

\* The names that occur in s between "{{" and "}}" and are identifiers.
PlaceholderNames(s) ==
    {SubSeq(s, p[1] + 2, p[2] - 1) :
        p \in {q \in (1..Len(s)) \X (1..Len(s)) :
                  /\ q[1] + 2 < q[2] /\ q[2] + 1 <= Len(s)
                  /\ SubSeq(s, q[1], q[1] + 1) = "{{"
                  /\ SubSeq(s, q[2], q[2] + 1) = "}}"
                  /\ IsIdentifier(SubSeq(s, q[1] + 2, q[2] - 1))}}

ListedNames(q) == {q[k] : k \in 1..Len(q)}

\* The same pieces in another order.
Reordered(ps, qs) ==
    /\ Len(qs) = Len(ps)
    /\ \A p \in Pieces :
          Cardinality({k \in 1..Len(qs) : qs[k] = p}) = Cardinality({k \in 1..Len(ps) : ps[k] = p})

\* C19: extraction returns exactly the names that occur in the template as
\* {{identifier}}, identifiers being letters and underscores; each name is
\* listed once however often it occurs; the same pieces in another order give
\* the same names; and a repeated call on the same template gives the same names.
C19_ExtractsPlaceholderSet ==
    [][set_template_vars =>
          /\ ListedNames(template_vars') = PlaceholderNames(prompt_template)
          /\ Len(template_vars') = Cardinality(PlaceholderNames(prompt_template))
          /\ \A ps \in PieceSeqs : Join(ps) = prompt_template =>
                \A qs \in PieceSeqs : Reordered(ps, qs) =>
                   \A q \in extract_template_variables(Join(qs)) :
                      ListedNames(q) = ListedNames(template_vars')
          /\ (template_vars # <<>> => ListedNames(template_vars') = ListedNames(template_vars))]_vars

\* A template with one placeholder twice and another once has been extracted:
\* two names are listed.
C19_Witness ==
    /\ prompt_template = "{{a}}{{b_c}}{{a}}"
    /\ Len(template_vars) = 2
    /\ ListedNames(template_vars) = {"a", "b_c"}

\* The template of the scenario and the text expected of its first resolution.
ScenarioTemplate == "User notes: {{personal_attributes}}. Run #{{run_id}}."
ScenarioResult ==
    "User notes: None stored yet. You can update this by asking the agent to remember personal details.. Run #1."

\* Resolutions of the scenario template for an agent, none of whose repository
\* calls failed, and the only one the agent's counter has counted.
FirstResolutions ==
    {t \in Tasks :
        /\ prompt_template = ScenarioTemplate
        /\ task[t].kind = "resolve" /\ task[t].pc = "done"
        /\ task[t].db_id # NoId /\ task[t].failed = {}
        /\ agent_run_id[task[t].db_id] = BaseRunId + 1}

\* C20: in a store that holds nothing but auto-created entries, the first
\* resolution of the scenario template for an agent leaves the agent with an
\* entry personal_attributes carrying the curated default text, resolves run_id
\* to "1", and returns exactly the expected text.
C20_ScenarioResolves ==
    \A t \in FirstResolutions :
        /\ \E k \in 1..Len(memories) :
              /\ memories[k].agent_id = task[t].db_id
              /\ memories[k].name = "personal_attributes"
              /\ memories[k].content = DefaultContent("personal_attributes")
        /\ task[t].values["run_id"] = "1"
        /\ task[t].result = ScenarioResult

\* The variable names with a curated default text.
WellKnown == {"personal_attributes", "technical_knowledge", "user_preferences"}

\* C21: an entry auto-created for a variable, at initialization or during a
\* resolution, carries the curated default text when the name is well known
\* and the generic default otherwise.
C21_CuratedDefaultOnAutoCreate ==
    [][\A t \in Tasks :
          ((init_create_memory(t) \/ resolve_create_memory(t)) /\ Len(memories') > Len(memories))
              => LET e == memories'[Len(memories')]
                 IN IF e.name \in WellKnown
                    THEN e.content = DefaultContent(e.name) /\ e.content # GenericDefault
                    ELSE e.content = GenericDefault]_vars

\* ------------------------------------------------------------------ the runs
\* sub occurs in s.
Contains(s, sub) == Find(s, sub, 1) # 0

\* C22: a run never raises to its caller; when the model's run or the building
\* of the agent failed, the run returns a response with success false whose
\* text carries the description of the error.
C22_RunNeverRaises ==
    /\ run.ended # "raised"
    /\ (run.ended = "returned" /\ run.cause \in {"build", "llm"})
          => ~run.success /\ Contains(run.text, ErrorText)

\* C23: a run that succeeds with a message history has stored the assistant
\* output, with its tool-call records, through the history exactly once by the
\* time it returns; a run that fails has stored no assistant response.
C23_PersistedOnce ==
    run.ended = "returned" =>
        /\ (run.success /\ run.history) =>
              /\ Len(run.persisted) = 1
              /\ run.persisted[1].content = run.text
        /\ ~run.success => run.persisted = <<>>

\* C24: when the model is run with the external tools enabled (by the agent's
\* configuration or by the channel payload of the run), the tool-server is
\* Running and has a URL, unless the agent's start of it failed.
C24_ServerRunningBeforeModel ==
    (run.llm /\ run.enabled /\ agent.started # "failed")
        => run.llm_state = "Running" /\ run.llm_url # None

\* C25: when the tool-server's configuration is missing or its launch failed,
\* the agent is built all the same, with no external tool, and its runs end
\* with a response: successfully when the model answers.
C25_DegradesToInProcessTools ==
    agent.started = "failed" =>
        /\ agent.class = "mcp"
        /\ agent.browser_tools = {}
        /\ run.ended # "raised"
        /\ (run.ended = "returned" /\ run.cause = "none") => run.success

\* The configuration lists tools, the start of the server failed, and a run of
\* the agent has succeeded.
C25_Witness ==
    /\ agent.started = "failed" /\ mcp_tools # {}
    /\ agent.browser_tools = {}
    /\ run.class = "mcp" /\ run.ended = "returned" /\ run.success

\* The schemas of the tools a configuration list enables.
SchemasOf(list) == {<<tool, Parameters(tool)>> : tool \in list \cap KnownTools}

\* C26: the tool schemas handed out depend on the configured list of enabled
\* tools alone: they are the same whether the tool-server is Stopped, Running
\* or failed to start.
C26_SchemasFromConfigOnly ==
    schemas.op # "none" => schemas.config = SchemasOf(mcp_tools)

\* C26 as the code has it: get_tools_config() returns the schemas of the
\* configured list whatever the state of the tool-server; initialize_browser_tools()
\* returns them when its start of the server succeeded and nothing when it failed.
C26_SchemasByFunction ==
    /\ schemas.op = "get_tools_config" => schemas.config = SchemasOf(mcp_tools)
    /\ schemas.op = "initialize_browser_tools" =>
          schemas.config = IF schemas.started THEN SchemasOf(mcp_tools) ELSE {}

\* get_tools_config() has returned every schema after the agent's start of the
\* server failed.
C26_Witness ==
    /\ agent.started = "failed" /\ process = NoProcess
    /\ mcp_tools = KnownTools
    /\ schemas.op = "get_tools_config" /\ Cardinality(schemas.config) = 5

\* ------------------------------------------------------------ the memory tools
\* The names of the entries a step has created or changed.
WrittenNames ==
    {memories'[k].name : k \in {j \in 1..Len(memories') :
                                   j > Len(memories) \/ memories'[j] # memories[j]}}

\* C27: every successful write of an entry leaves nothing cached for its key:
\* a resolution through the cache that starts after the write reads the store.
C27_WriteInvalidates ==
    [][\A key \in WrittenNames : cache'[key] = Unset]_vars

\* An update that names no entry: an id no entry has, or, without an id, a
\* name no entry of the agent has.
NamesNoEntry(a, memory_id, name) ==
    \/ /\ memory_id # NoId
       /\ \A k \in 1..Len(memories) : memories[k].id # memory_id
    \/ /\ memory_id = NoId /\ name # None
       /\ \A k \in 1..Len(memories) :
             ~(memories[k].agent_id = a /\ memories[k].name = name)

NotFoundMessages == {"Memory with ID not found", "Memory with name not found"}

\* The step answers with a failure and leaves every stored entry as it was;
\* when the store answered the lookup, the answer is that no entry was found.
RefusedAsNotFound ==
    /\ ~reply'.success
    /\ memories' = memories
    /\ failures' = failures => reply'.content \in NotFoundMessages

RenameCollides(memory_id, name) ==
    /\ memory_id # NoId /\ name # None
    /\ \E k, j \in 1..Len(memories) :
          /\ memories[k].id = memory_id
          /\ memories[k].name # name
          /\ j # k
          /\ ScopeKey(memories[j]) = ScopeKey([memories[k] EXCEPT !.name = name])

\* C29: an update that renames an entry to a name another entry of the same
\* scope already has fails and changes no entry.
C29_RenameConflict ==
    [][\A a \in Agents : \A memory_id \in MemoryIds : \A name \in ToolNames :
          (RenameCollides(memory_id, name) /\ update_memory(a, memory_id, name))
             => (~reply'.success /\ memories' = memories)]_vars

\* The ids of the entries of agent a whose names start with the prefix, in the
\* order of the store.
EntriesOfAgent(a, prefix) ==
    IdsOf(SelectSeq(memories,
                    LAMBDA e : e.agent_id = a /\ (prefix = "" \/ StartsWith(e.name, prefix))))

\* C30: a listing returns exactly the entries of one agent, the calling one,
\* restricted to the names that start with the prefix and in the order of the
\* store; it never mixes in the entries of another agent.
C30_ListingOfOneAgent ==
    [][/\ \A prefix \in Prefixes :
            (list_memories_tool(prefix) /\ reply'.success)
               => \E a \in Agents : reply'.listed = EntriesOfAgent(a, prefix)
       /\ \A a \in Agents : \A c \in ToolContexts :
            (read_memory_list_all(a, c) /\ reply'.success)
               => reply'.listed = EntriesOfAgent(a, "")]_vars

\* ------------------------------------------------------------------ stop_server
\* Caller c begins a stop_server on a Running handle.
StopBegins(c) == pc[c] = "idle" /\ pc'[c] = "stop_waitcall" /\ HandleState = "Running"
\* The stop_server of caller c, begun on a Running handle, returns.
StopReturns(c) == pc[c] \in StopPcs /\ pc'[c] = "idle" /\ ~began[c]

\* C33: stop_server on a Running handle first asks the process to terminate;
\* it force-kills the process only when the process has not exited after the
\* grace period of 5 time units; the call always returns, and when it returns
\* the process of the handle is no longer running.
C33_GracefulThenForced ==
    /\ [][\A c \in Callers : StopBegins(c) => procs'[process] = "term"]_vars
    /\ [][\A c \in Callers :
            (pc[c] # "stop_kill" /\ pc'[c] = "stop_kill")
               => (waited[c] = GraceTimeout /\ Alive(process))]_vars
    /\ [][\A c \in Callers :
            (pc[c] = "stop_kill" /\ pc'[c] # "stop_kill")
               => (procs'[process] \in {"exited", "killed"} /\ (Alive(process) => procs'[process] = "killed"))]_vars
    /\ [][\A c \in Callers : StopReturns(c) => procs'[process'] \in {"exited", "killed"}]_vars
    /\ \A c \in Callers : (pc[c] \in StopPcs) ~> (pc[c] = "idle")

\* A stop_server on a Running handle has returned after the force-kill.
C33_Witness ==
    /\ last = Returned("stop", FALSE, FALSE)
    /\ process # NoProcess /\ procs[process] = "killed"

\* ------------------------------------------------------------ the resolver
\* Task t, a resolution, reads the variable it is at and the repository answers.
ResolverReads(t) ==
    /\ task[t].kind = "resolve" /\ task[t].pc = "get_memory"
    /\ task'[t] # task[t] /\ failures' = failures
\* Task t, a resolution, inserts an entry.
ResolverCreates(t) ==
    /\ task[t].kind = "resolve" /\ task[t].pc = "create_memory"
    /\ Len(memories') > Len(memories)

\* C34: the resolver creates an entry for a variable only when no entry with
\* the name exists; an entry that exists, whatever its content, is resolved to
\* its content.
C34_CreatesOnlyWhenAbsent ==
    [][\A t \in Tasks :
          /\ ResolverCreates(t) => get_memory_by_name(Var(t), NoId) = NoId
          /\ (ResolverReads(t) /\ get_memory_by_name(Var(t), NoId) # NoId)
                => /\ task'[t].pc # "create_memory"
                   /\ task'[t].values[Var(t)] = memories[get_memory_by_name(Var(t), NoId)].content]_vars

\* Task t, a resolution for an agent object without database id, takes a step.
NoIdStep(t) ==
    /\ task'[t] # task[t]
    /\ task'[t].kind = "resolve" /\ task'[t].db_id = NoId

\* C39: a resolution for an agent without database id writes nothing to the
\* repository and increments no run counter; run_id is substituted as "1", and
\* a memory variable that is not found is substituted as "None stored yet" and
\* recorded among the variables with errors.
C39_NoIdResolvesWithoutWrites ==
    [][\A t \in Tasks : NoIdStep(t) =>
          /\ memories' = memories
          /\ agent_run_id' = agent_run_id
          /\ task'[t].values["run_id"] = RunIdFallback
          /\ (task[t].pc = "get_memory" /\ failures' = failures
                 /\ get_memory_by_name(Var(t), NoId) = NoId)
                => /\ task'[t].values[Var(t)] = GenericDefault
                   /\ Var(t) \in task'[t].errors
          /\ (task'[t].pc = "done" /\ failures' = failures)
                => task'[t].result = Fill(task[t].values)]_vars

\* A resolution without database id has ended with both variables of the
\* template not found.
C39_Witness ==
    \E t \in Tasks :
       /\ task[t].kind = "resolve" /\ task[t].db_id = NoId /\ task[t].pc = "done"
       /\ task[t].errors = {"nickname", "personal_attributes"}
       /\ task[t].result = "None stored yet - None stored yet"

\* ------------------------------------- _initialize_memory_variables_sync
\* The memory variables of the template.
MemoryVarNames == {memory_vars[k] : k \in 1..Len(memory_vars)}
\* A repository call of task t failed on variable n.
FailedOn(t, n) == \E f \in task[t].failed : f.var = n
\* Task t, an initialization, takes a step after it began.
InitStep(t) == task[t].kind = "init" /\ task'[t] # task[t]

\* C36: when _initialize_memory_variables_sync has returned, every memory
\* variable whose repository calls succeeded has an entry of the agent, also
\* when a call for another variable failed; the entries that existed are left
\* as they were, and an entry is created, with the default content of the
\* variable, only for a variable the agent has no entry of.
C36_InitializesEveryVariable ==
    /\ [](\A t \in Tasks :
             (task[t].kind = "init" /\ task[t].pc = "done" /\ task[t].db_id # NoId)
                => \A n \in MemoryVarNames :
                      ~FailedOn(t, n) => get_memory_by_name(n, task[t].db_id) # NoId)
    /\ [][\A t \in Tasks : InitStep(t) =>
             /\ SubSeq(memories', 1, Len(memories)) = memories
             /\ Len(memories') <= Len(memories) + 1
             /\ Len(memories') > Len(memories)
                   => /\ get_memory_by_name(Var(t), task[t].db_id) = NoId
                      /\ memories'[Len(memories')].name = Var(t)
                      /\ memories'[Len(memories')].agent_id = task[t].db_id
                      /\ memories'[Len(memories')].content = DefaultContent(Var(t))]_vars

\* An initialization has returned: a repository call for nickname failed, and
\* personal_attributes has its entry with the curated default.
C36_Witness ==
    \E t \in Tasks :
       /\ task[t].kind = "init" /\ task[t].pc = "done" /\ task[t].db_id # NoId
       /\ FailedOn(t, "nickname")
       /\ template_vars = <<"nickname", "personal_attributes">>
       /\ get_memory_by_name("nickname", task[t].db_id) = NoId
       /\ get_memory_by_name("personal_attributes", task[t].db_id) # NoId
       /\ memories[get_memory_by_name("personal_attributes", task[t].db_id)].content
             = DefaultContent("personal_attributes")

\* --------------------------------------------------------------- substitution
\* One pass over the original template from position i: a placeholder whose
\* name has a value is replaced by the value, every other character is kept.
RECURSIVE SubstituteOnce(_, _, _)
SubstituteOnce(s, i, values) ==
    IF i > Len(s) THEN ""
    ELSE LET j == IdentEnd(s, i + 2)
             isPlaceholder ==
                 /\ i + 1 <= Len(s) /\ SubSeq(s, i, i + 1) = "{{"
                 /\ j > i + 2 /\ j + 1 <= Len(s) /\ SubSeq(s, j, j + 1) = "}}"
                 /\ SubSeq(s, i + 2, j - 1) \in Names
                 /\ values[SubSeq(s, i + 2, j - 1)] # Unset
         IN IF isPlaceholder
            THEN values[SubSeq(s, i + 2, j - 1)] \o SubstituteOnce(s, j + 2, values)
            ELSE SubSeq(s, i, i) \o SubstituteOnce(s, i + 1, values)

\* The orders in which the code may substitute: run_id, then the memory
\* variables in one of the orders the extraction may list them in.
SubstitutionOrders ==
    {<<"run_id">> \o SelectSeq(tv, LAMBDA v : v # "run_id") :
        tv \in extract_template_variables(prompt_template)}

\* C35: the filled template is the original template with each placeholder
\* replaced by its value and nothing else; it is the same for every order in
\* which the variables are substituted.
C35_LiteralSubstitution ==
    [][\A t \in Tasks :
          (task[t].pc = "fill" /\ task'[t].pc = "done" /\ failures' = failures)
             => /\ task'[t].result = SubstituteOnce(prompt_template, 1, task[t].values)
                /\ \A order \in SubstitutionOrders :
                      FillFrom(prompt_template, order, task[t].values) = task'[t].result]_vars

\* ------------------------------------------------------------------ read_memory
\* The result is that of a read of one entry: found or not found, nothing listed.
SpecificResult == reply'.content \in {"Memory found", "Memory not found"} /\ reply'.listed = <<>>

\* C38: read_memory lists the memories of the agent only when list_all is set
\* and neither memory_id nor name is given; with memory_id or name the result
\* is that memory or not found, whatever list_all is; with none of the three
\* the call fails and the store is not read.
C38_ListsOnlyWithoutSelector ==
    [][\A a \in Agents : \A memory_id \in MemoryIds \cup {NoId} :
          \A name \in ToolNames \cup {None} : \A list_all \in BOOLEAN :
             (read_memory_call(a, memory_id, name, list_all) /\ failures' = failures)
                => /\ (memory_id # NoId \/ name # None) => SpecificResult
                   /\ (memory_id = NoId /\ name = None /\ list_all)
                         => (reply'.success /\ reply'.listed = EntriesOfAgent(a, ""))
                   /\ (memory_id = NoId /\ name = None /\ ~list_all) => ~reply'.success]_vars

\* ---------------------------------------------------------------- system_message
\* C37: a system_message given to SimpleAgent.run applies to that run only:
\* whenever no call is in progress self.system_prompt is the prompt the agent
\* was constructed with, and a run without system_message has its model run
\* by an instance built with that prompt.
C37_SystemMessageForOneRun ==
    agent.class = "simple" =>
       /\ agent.system_prompt = BasePrompt
       /\ (run.class = "simple" /\ run.llm /\ ~run.system_message)
             => run.prompt_used = BasePrompt

\* ------------------------------------------------- concurrent process_message
\* The call gave an agent id, a user id and a session id of its own.
GaveIds(c) == calls[c].pc # "ready" /\ calls[c].agent_id # NoId /\ calls[c].session_id # None
OwnIds(c) ==
    [agent_id |-> calls[c].agent_id, user_id |-> calls[c].user_id,
     session_id |-> calls[c].session_id]

\* C31: each call of process_message that gave its ids has its template
\* resolved for its own agent id, has its memory tools see its own agent, user
\* and session ids, and has its response stored under its own agent id,
\* whatever other call runs on the same agent object meanwhile.
C31_CallsUseOwnIds ==
    \A c \in Callers :
       GaveIds(c) =>
          /\ calls[c].resolved = <<calls[c].agent_id>>
          /\ calls[c].tool \in {<<>>, <<OwnIds(c)>>}
          /\ calls[c].persisted \in {<<>>, <<calls[c].agent_id>>}

\* ------------------------------------------------------- shutdown of one agent
\* Agent c shuts down in this step.
ShutsDown(c) == peers[c].phase # "shut" /\ peers'[c].phase = "shut"
\* Agent d has the browser tools enabled and its run, begun with the
\* tool-server running, is waiting for the model.
RunsWithServer(d) ==
    /\ peers[d].phase = "running" /\ peers[d].use_playwright_mcp
    /\ peers[d].began_on = "Running"

\* C32: the shutdown of one agent leaves the shared tool-server running for
\* every other agent with the browser tools enabled whose run is in progress.
C32_ShutdownSparesRunningAgents ==
    [][\A c, d \in Callers :
          (c # d /\ ShutsDown(c) /\ RunsWithServer(d) /\ HandleState = "Running")
             => HandleState' = "Running"]_vars
====
